---- MODULE Spec2Model ----
(***************************************************************************)
(* Model of the wm-api UDS reverse proxy: the dial loop with linear        *)
(* backoff, the header sanitiser of both legs, the prefix strip of the     *)
(* router front and the string-sniffing fault mapper.                      *)
(*                                                                         *)
(* Strings are TLA+ strings read character by character with SubSeq, so    *)
(* that prefix stripping, substring search and case folding are computed   *)
(* the way the Rust code computes them.  Option<T> is a sequence of length *)
(* at most one: <<>> is None and <<v>> is Some(v).                         *)
(***************************************************************************)
EXTENDS Integers, Sequences, FiniteSets, TLC

\* ------------------------------------------------------------------ bounds
MaxAttempts == 3
MaxDelay == 1
MaxTimeout == 1
MaxHdrs == 2
MaxCalls == 2

\* ----------------------------------------------------------- Option<T>
None == <<>>
Some(v) == <<v>>
IsSome(o) == Len(o) = 1
Unwrap(o) == o[1]

\* ------------------------------------------------------ string helpers
\* str::starts_with
StartsWith(s, p) ==
    /\ Len(p) <= Len(s)
    /\ SubSeq(s, 1, Len(p)) = p

\* str::contains(&str): substring search
Contains(s, p) ==
    \E i \in 1..(Len(s) - Len(p) + 1) : SubSeq(s, i, i + Len(p) - 1) = p

UpperChars == "ABCDEFGHIJKLMNOPQRSTUVWXYZ"
LowerChars == "abcdefghijklmnopqrstuvwxyz"

\* the lower-case letter of every upper-case ASCII letter
AsciiLower ==
    [ c \in { SubSeq(UpperChars, i, i) : i \in 1..26 } |->
        LET i == CHOOSE j \in 1..26 : SubSeq(UpperChars, j, j) = c
        IN  SubSeq(LowerChars, i, i) ]

\* u8::to_ascii_lowercase on a one-character string
ToLowerChar(c) == IF c \in DOMAIN AsciiLower THEN AsciiLower[c] ELSE c

RECURSIVE ToLower(_)
\* str::to_ascii_lowercase
ToLower(s) ==
    IF Len(s) = 0 THEN ""
    ELSE ToLowerChar(SubSeq(s, 1, 1)) \o ToLower(SubSeq(s, 2, Len(s)))

\* mutant: the comparison is case-sensitive
EqIgnoreAsciiCase_Exact(a, b) == a = b

\* str::eq_ignore_ascii_case
EqIgnoreAsciiCase(a, b) == ToLower(a) = ToLower(b)

\* --------------------------------------------------------- http::HeaderMap
\* A header map is a function from (lower-case) header names to the
\* non-empty sequence of values of that name, in insertion order.
EmptyHeaderMap == <<>>

\* HeaderName::from_bytes: header names are normalised to lower case
HeaderNameOf(wireName) == ToLower(wireName)

\* HeaderMap::append / http::request::Builder::header: adds one more value
HeaderMapAppend(m, name, value) ==
    IF name \in DOMAIN m
    THEN [m EXCEPT ![name] = Append(@, value)]
    ELSE m @@ (name :> <<value>>)

\* HeaderMap::insert: replaces every value the name had
HeaderMapInsert(m, name, value) ==
    IF name \in DOMAIN m
    THEN [m EXCEPT ![name] = <<value>>]
    ELSE m @@ (name :> <<value>>)

\* HeaderMap::get: the first value of the name
HeaderMapGet(m, name) ==
    IF name \in DOMAIN m THEN Some(m[name][1]) ELSE None

RECURSIVE IterNames(_, _)
IterNames(m, names) ==
    IF names = {} THEN <<>>
    ELSE LET n == CHOOSE x \in names : TRUE
         IN  [i \in 1..Len(m[n]) |-> <<n, m[n][i]>>] \o IterNames(m, names \ {n})

\* HeaderMap::iter: every (name, value) pair, the values of one name in order
HeaderMapIter(m) == IterNames(m, DOMAIN m)

RECURSIVE ParseWireHeaders(_)
\* the HTTP/1.1 parser of either leg: header lines in wire order into a map
ParseWireHeaders(wire) ==
    IF Len(wire) = 0 THEN EmptyHeaderMap
    ELSE LET front == ParseWireHeaders(SubSeq(wire, 1, Len(wire) - 1))
             last  == wire[Len(wire)]
         IN  HeaderMapAppend(front, HeaderNameOf(last[1]), last[2])

\* mutant: Keep-Alive is missing from the list
hop_by_hop_headers_NoKeepAlive ==
    << "connection", "proxy-authenticate", "proxy-authorization", "te",
       "trailer", "transfer-encoding", "upgrade" >>

\* ------------------------------------------------------ hop-by-hop set
hop_by_hop_headers ==
    << "connection", "proxy-authenticate", "proxy-authorization", "te",
       "trailer", "transfer-encoding", "upgrade", "keep-alive" >>

\* Vec::contains
VecContains(v, x) == \E i \in 1..Len(v) : v[i] = x

RECURSIVE CopyRequestHeaders(_, _)
\* the request-leg loop: req_builder.header(name, value) for non hop-by-hop
CopyRequestHeaders(pairs, builder) ==
    IF Len(pairs) = 0 THEN builder
    ELSE LET name  == pairs[1][1]
             value == pairs[1][2]
             next  == IF ~VecContains(hop_by_hop_headers, name)
                      THEN HeaderMapAppend(builder, name, value)
                      ELSE builder
         IN  CopyRequestHeaders(Tail(pairs), next)

\* mutant: the peer address replaces the X-Forwarded-For values of the caller
UpstreamHeaders_InsertFor(headers, client_ip) ==
    LET copied == CopyRequestHeaders(HeaderMapIter(headers), EmptyHeaderMap)
        withFor == IF IsSome(client_ip)
                   THEN HeaderMapInsert(copied, "x-forwarded-for", Unwrap(client_ip))
                   ELSE copied
        withProto == HeaderMapAppend(withFor, "x-forwarded-proto", "http")
        host == HeaderMapGet(headers, "host")
    IN  IF IsSome(host)
        THEN HeaderMapAppend(withProto, "x-forwarded-host", Unwrap(host))
        ELSE withProto

\* headers of the request sent upstream
UpstreamHeaders(headers, client_ip) ==
    LET copied == CopyRequestHeaders(HeaderMapIter(headers), EmptyHeaderMap)
        withFor == IF IsSome(client_ip)
                   THEN HeaderMapAppend(copied, "x-forwarded-for", Unwrap(client_ip))
                   ELSE copied
        withProto == HeaderMapAppend(withFor, "x-forwarded-proto", "http")
        host == HeaderMapGet(headers, "host")
    IN  IF IsSome(host)
        THEN HeaderMapAppend(withProto, "x-forwarded-host", Unwrap(host))
        ELSE withProto

RECURSIVE FilterResponseHeaders(_, _)
\* the response-leg loop: filtered_headers.insert(name, value)
FilterResponseHeaders(pairs, filtered_headers) ==
    IF Len(pairs) = 0 THEN filtered_headers
    ELSE LET name  == pairs[1][1]
             value == pairs[1][2]
             next  == IF ~VecContains(hop_by_hop_headers, name)
                      THEN HeaderMapInsert(filtered_headers, name, value)
                      ELSE filtered_headers
         IN  FilterResponseHeaders(Tail(pairs), next)

\* headers of the response handed back to the client
ClientHeaders(headers) ==
    FilterResponseHeaders(HeaderMapIter(headers), EmptyHeaderMap)

\* ------------------------------------------------------------ URI handling
Prefix == "/wolfapi"

\* str::strip_prefix: Some(rest) when s starts with p, None otherwise
StripPrefix(s, p) ==
    IF StartsWith(s, p) THEN Some(SubSeq(s, Len(p) + 1, Len(s))) ELSE None

\* Option::unwrap_or
UnwrapOr(o, d) == IF IsSome(o) THEN Unwrap(o) ELSE d

\* Router::nest("/wolfapi", ..): the nested router is entered for the bare
\* prefix and for every path below it, and sees the path with the prefix
\* removed (the empty remainder becomes "/").  None: the path is not nested.
NestedPath(path) ==
    IF path = Prefix THEN Some("/")
    ELSE IF StartsWith(path, Prefix \o "/")
         THEN Some(SubSeq(path, Len(Prefix) + 1, Len(path)))
         ELSE None

\* wolf_proxy: uri.path().strip_prefix("/wolfapi").unwrap_or(uri.path())
stripped_path(path) == UnwrapOr(StripPrefix(path, Prefix), path)

\* wolf_proxy: the URI text that is reassembled from path and query
ReassembleUri(path, query) ==
    IF IsSome(query)
    THEN stripped_path(path) \o "?" \o Unwrap(query)
    ELSE stripped_path(path)

\* str::parse::<http::Uri> on strings of path, query and token characters:
\* the empty string is rejected, a string that starts with "/" is taken in
\* origin form, "*" is accepted, and any other string has to be a bare
\* authority, which ends at the first "/", "?" or "#".
ParseUri(text) ==
    IF Len(text) = 0 THEN None
    ELSE IF SubSeq(text, 1, 1) = "/" THEN Some(text)
    ELSE IF text = "*" THEN Some(text)
    ELSE IF Contains(text, "/") \/ Contains(text, "?") \/ Contains(text, "#")
         THEN None
         ELSE Some(text)

\* --------------------------------------------------------- error messages
Digits == "0123456789"

RECURSIVE U32ToString(_)
\* u32 Display
U32ToString(n) ==
    IF n < 10 THEN SubSeq(Digits, n + 1, n + 1)
    ELSE U32ToString(n \div 10) \o SubSeq(Digits, (n % 10) + 1, (n % 10) + 1)

\* Display of the anyhow error of an exhausted dial whose last attempt
\* failed with an I/O error: the outermost context only
ConnectIoError == "failed to connect to wolf.sock after retries"

\* anyhow!("connection timeout after {} attempts", attempt)
ConnectTimeoutError(n) == "connection timeout after " \o U32ToString(n) \o " attempts"

\* .context("read timeout") on the elapsed read_timeout
ReadTimeoutError == "read timeout"

\* Display of the hyper errors a client exchange can end with
HyperErrors ==
    { "connection closed before message completed",
      "connection error",
      "error writing a body to connection",
      "invalid HTTP version parsed",
      "invalid HTTP header parsed",
      "message head is too large",
      "operation was canceled" }

\* ------------------------------------------------------------ fault mapper
\* error_response: status and error code of the JSON envelope
error_response(status, error) ==
    [status |-> status, error |-> error,
     headers |-> ("content-type" :> <<"application/json">>), body |-> "envelope"]

\* mutant: the connect substrings are looked for before "timeout"
FaultMap_ConnectFirst(error_msg) ==
    IF Contains(error_msg, "connection") \/ Contains(error_msg, "connect")
    THEN error_response(503, "UpstreamUnavailable")
    ELSE IF Contains(error_msg, "timeout")
         THEN error_response(504, "UpstreamTimeout")
         ELSE error_response(502, "UpstreamError")

\* mutant: the timeout is looked for under another wording
FaultMap_TimedOut(error_msg) ==
    IF Contains(error_msg, "timed out")
    THEN error_response(504, "UpstreamTimeout")
    ELSE IF Contains(error_msg, "connection") \/ Contains(error_msg, "connect")
         THEN error_response(503, "UpstreamUnavailable")
         ELSE error_response(502, "UpstreamError")

\* wolf_proxy, Err arm: the status is chosen by substring search in the
\* Display text of the error
FaultMap(error_msg) ==
    IF Contains(error_msg, "timeout")
    THEN error_response(504, "UpstreamTimeout")
    ELSE IF Contains(error_msg, "connection") \/ Contains(error_msg, "connect")
         THEN error_response(503, "UpstreamUnavailable")
         ELSE error_response(502, "UpstreamError")

\* ------------------------------------------------------- url::Url::parse
\* the characters of a string, as a set of one-character strings
CharsOf(s) == { SubSeq(s, i, i) : i \in 1..Len(s) }

HexDigits == "0123456789abcdef"

\* the value of every digit character, for radix up to 16
DigitValue ==
    [ c \in CharsOf(HexDigits) |->
        (CHOOSE j \in 1..16 : SubSeq(HexDigits, j, j) = c) - 1 ]

\* s is a non-empty numeral in the given radix
IsNumeral(s, radix) ==
    /\ Len(s) > 0
    /\ \A c \in CharsOf(s) : c \in DOMAIN DigitValue /\ DigitValue[c] < radix

RECURSIVE ParseRadix(_, _)
\* the number a numeral denotes
ParseRadix(s, radix) ==
    IF Len(s) = 0 THEN 0
    ELSE ParseRadix(SubSeq(s, 1, Len(s) - 1), radix) * radix
         + DigitValue[SubSeq(s, Len(s), Len(s))]

RECURSIVE FindFirst(_, _, _)
\* the position, from i on, of the first character of s that is in cs; 0 if none
FindFirst(s, cs, i) ==
    IF i > Len(s) THEN 0
    ELSE IF SubSeq(s, i, i) \in cs THEN i
         ELSE FindFirst(s, cs, i + 1)

RECURSIVE FindLast(_, _, _)
\* the position, from i down, of the last character of s that is in cs; 0 if none
FindLast(s, cs, i) ==
    IF i < 1 THEN 0
    ELSE IF SubSeq(s, i, i) \in cs THEN i
         ELSE FindLast(s, cs, i - 1)

\* the text before position i, all of it when i = 0
Before(s, i) == IF i = 0 THEN s ELSE SubSeq(s, 1, i - 1)

\* the text after position i, none of it when i = 0
After(s, i) == IF i = 0 THEN "" ELSE SubSeq(s, i + 1, Len(s))

RECURSIVE Split(_, _)
\* str::split on a one-character separator
Split(s, sep) ==
    IF FindFirst(s, {sep}, 1) = 0 THEN << s >>
    ELSE << Before(s, FindFirst(s, {sep}, 1)) >>
         \o Split(After(s, FindFirst(s, {sep}, 1)), sep)

RECURSIVE Pow(_, _)
Pow(b, e) == IF e = 0 THEN 1 ELSE b * Pow(b, e - 1)

RECURSIVE Join(_, _)
Join(q, sep) ==
    IF Len(q) = 0 THEN ""
    ELSE IF Len(q) = 1 THEN q[1]
         ELSE q[1] \o sep \o Join(Tail(q), sep)

\* Ipv4Addr Display: dotted decimal
Ipv4ToString(ip) ==
    Join([ i \in 1..4 |-> U32ToString(ip[i]) ], ".")

\* one part of a dotted-decimal address: one to three digits, no leading
\* zero, at most 255
IsOctetText(p) ==
    /\ IsNumeral(p, 10)
    /\ Len(p) <= 3
    /\ Len(p) > 1 => SubSeq(p, 1, 1) # "0"
    /\ ParseRadix(p, 10) <= 255

\* the address of four parts that are octets, if they are
OctetsOfParts(parts) ==
    IF Len(parts) = 4 /\ \A i \in 1..4 : IsOctetText(parts[i])
    THEN Some([ i \in 1..4 |-> ParseRadix(parts[i], 10) ])
    ELSE None

\* <Ipv4Addr as FromStr>: exactly four decimal octets
StdParseIpv4(s) == OctetsOfParts(Split(s, "."))

\* url host parser: one part of an IPv4 number, hexadecimal after 0x, octal
\* after a leading 0, decimal otherwise; None when it is not a number
Ipv4Part(p) ==
    IF Len(p) >= 2 /\ SubSeq(p, 1, 2) = "0x"
    THEN IF Len(p) = 2 THEN Some(0)
         ELSE IF IsNumeral(SubSeq(p, 3, Len(p)), 16)
              THEN Some(ParseRadix(SubSeq(p, 3, Len(p)), 16)) ELSE None
    ELSE IF Len(p) >= 2 /\ SubSeq(p, 1, 1) = "0"
         THEN IF IsNumeral(p, 8) THEN Some(ParseRadix(p, 8)) ELSE None
         ELSE IF IsNumeral(p, 10) THEN Some(ParseRadix(p, 10)) ELSE None

\* a sequence without its last element when that one is empty
DropEmptyLast(parts) ==
    IF Len(parts) > 1 /\ parts[Len(parts)] = ""
    THEN SubSeq(parts, 1, Len(parts) - 1) ELSE parts

\* the labels of a host, one trailing dot dropped
HostLabels(s) == DropEmptyLast(Split(s, "."))

\* a label that reads as a number
IsNumberLabel(label) ==
    \/ IsNumeral(label, 10)
    \/ Len(label) >= 2 /\ SubSeq(label, 1, 2) = "0x"
          /\ (Len(label) = 2 \/ IsNumeral(SubSeq(label, 3, Len(label)), 16))

\* the last element of a non-empty sequence
LastOf(q) == q[Len(q)]

\* url host parser: the last label is a number, so the host is an IPv4 address
EndsInNumber(s) == IsNumberLabel(LastOf(HostLabels(s)))

\* the address of one to four numbers, every number but the last one octet,
\* the last filling the remaining octets; None is a parse error
Ipv4OfNumbers(nums) ==
    IF \/ \E i \in 1..(Len(nums) - 1) : nums[i] > 255
       \/ Len(nums) > 1 /\ nums[Len(nums)] >= Pow(256, 5 - Len(nums))
    THEN None
    ELSE Some([ i \in 1..4 |->
                  IF i < Len(nums) THEN nums[i]
                  ELSE (nums[Len(nums)] \div Pow(256, 4 - i)) % 256 ])

\* the address the labels denote. A label is at most nine characters long
\* here, so that its value fits the integers of the checker.
Ipv4OfLabels(labels) ==
    IF \/ Len(labels) > 4
       \/ \E i \in 1..Len(labels) :
             Len(labels[i]) > 9 \/ ~IsSome(Ipv4Part(labels[i]))
    THEN None
    ELSE Ipv4OfNumbers([ i \in 1..Len(labels) |-> Unwrap(Ipv4Part(labels[i])) ])

\* url host parser: an IPv4 number
UrlParseIpv4(s) == Ipv4OfLabels(HostLabels(s))

RECURSIVE U16ToHex(_)
\* a 16-bit group in lower-case hexadecimal, no leading zero
U16ToHex(n) ==
    IF n < 16 THEN SubSeq(HexDigits, n + 1, n + 1)
    ELSE U16ToHex(n \div 16) \o SubSeq(HexDigits, (n % 16) + 1, (n % 16) + 1)

\* the groups written on one side of "::"
Ipv6Groups(s) == IF s = "" THEN <<>> ELSE Split(s, ":")

\* every element is a group of one to four hexadecimal digits
AreGroups(q) == \A i \in 1..Len(q) : IsNumeral(q[i], 16) /\ Len(q[i]) <= 4

GroupValues(q) == [ i \in 1..Len(q) |-> ParseRadix(q[i], 16) ]

\* an address written in full: eight groups
Ipv6Full(g) ==
    IF Len(g) = 8 /\ AreGroups(g) THEN Some(GroupValues(g)) ELSE None

\* an address written with "::" between the groups left and right
Ipv6Compressed(left, right) ==
    IF Len(left) + Len(right) <= 7 /\ AreGroups(left) /\ AreGroups(right)
    THEN Some(GroupValues(left)
              \o [ i \in 1..(8 - Len(left) - Len(right)) |-> 0 ]
              \o GroupValues(right))
    ELSE None

\* the position of the first "::" of s, 0 if there is none
DoubleColon(s) ==
    IF \E i \in 1..(Len(s) - 1) : SubSeq(s, i, i + 1) = "::"
    THEN CHOOSE i \in 1..(Len(s) - 1) :
            /\ SubSeq(s, i, i + 1) = "::"
            /\ \A j \in 1..(i - 1) : SubSeq(s, j, j + 1) # "::"
    ELSE 0

\* the groups of lower-case text s whose first "::" is at d
Ipv6At(s, d) ==
    IF d = 0 THEN Ipv6Full(Split(s, ":"))
    ELSE Ipv6Compressed(Ipv6Groups(SubSeq(s, 1, d - 1)),
                        Ipv6Groups(SubSeq(s, d + 2, Len(s))))

\* url host parser: the eight groups of a bracketed IPv6 address (the text
\* between the brackets; a dotted-quad tail is not among the inputs); None is
\* a parse error
UrlParseIpv6(text) == Ipv6At(ToLower(text), DoubleColon(ToLower(text)))

RECURSIVE ZeroRun(_, _)
\* the number of zero groups in a row from group i on
ZeroRun(g, i) ==
    IF i > Len(g) \/ g[i] # 0 THEN 0 ELSE 1 + ZeroRun(g, i + 1)

\* the length of the longest run of zero groups
LongestZeroRun(g) ==
    CHOOSE n \in 0..8 :
        /\ \E i \in 1..8 : ZeroRun(g, i) = n
        /\ \A i \in 1..8 : ZeroRun(g, i) <= n

\* where the first run of that length starts
FirstRunOf(g, n) ==
    CHOOSE i \in 1..8 :
        /\ ZeroRun(g, i) = n
        /\ \A j \in 1..(i - 1) : ZeroRun(g, j) < n

HexGroups(q) == Join([ i \in 1..Len(q) |-> U16ToHex(q[i]) ], ":")

\* the groups with the run of n zero groups from start on written "::"
Ipv6Write(g, n, start) ==
    HexGroups(SubSeq(g, 1, start - 1)) \o "::" \o HexGroups(SubSeq(g, start + n, 8))

\* url host serializer: the first longest run of two or more zero groups is
\* written "::"
Ipv6ToString(g) ==
    IF LongestZeroRun(g) < 2 THEN HexGroups(g)
    ELSE Ipv6Write(g, LongestZeroRun(g), FirstRunOf(g, LongestZeroRun(g)))

\* url: the schemes with an authority grammar of their own and their ports
\* (file, whose host grammar differs, is not among the inputs)
KnownDefaultPort ==
    ("http" :> 80) @@ ("https" :> 443) @@ ("ws" :> 80) @@ ("wss" :> 443) @@
    ("ftp" :> 21)

IsSpecial(scheme) == scheme \in DOMAIN KnownDefaultPort

\* the characters no host may hold
ForbiddenHostChars == CharsOf(" #/<>?@[\\]^|")

\* the characters a scheme starts with, and those it goes on with
SchemeStart == CharsOf(UpperChars) \cup CharsOf(LowerChars)
SchemeChars == SchemeStart \cup CharsOf(Digits) \cup {"+", "-", "."}

\* the result of a failed Url::parse
UrlErr == [ok |-> FALSE, scheme |-> "", host |-> None, port |-> None]

\* the text before the colon at i is a scheme
SchemeAt(input, i) ==
    IF /\ i > 1
       /\ SubSeq(input, 1, 1) \in SchemeStart
       /\ CharsOf(SubSeq(input, 1, i - 1)) \subseteq SchemeChars
    THEN Some(ToLower(SubSeq(input, 1, i - 1)))
    ELSE None

\* url scheme: a letter, then letters, digits, "+", "-", "." up to the first
\* ":"; lower-cased. None: the input is not an absolute URL.
ParseScheme(input) == SchemeAt(input, FindFirst(input, {":"}, 1))

RECURSIVE SkipSlashes(_)
\* special schemes: any run of slashes and backslashes precedes the authority
SkipSlashes(s) ==
    IF Len(s) > 0 /\ SubSeq(s, 1, 1) \in {"/", "\\"}
    THEN SkipSlashes(SubSeq(s, 2, Len(s))) ELSE s

\* the bracketed text of parsed IPv6 groups
Ipv6Host(g) ==
    IF IsSome(g) THEN Some("[" \o Ipv6ToString(Unwrap(g)) \o "]") ELSE None

\* the dotted-decimal text of a parsed IPv4 number
Ipv4Host(ip) ==
    IF IsSome(ip) THEN Some(Ipv4ToString(Unwrap(ip))) ELSE None

\* the host of a special scheme, from its lower-cased text
DomainOrIpv4(domain) ==
    IF EndsInNumber(domain) THEN Ipv4Host(UrlParseIpv4(domain))
    ELSE Some(domain)

\* url host parser. special: lower-cased domain, or the IPv4 address its
\* number denotes; otherwise the opaque text. None is a parse error.
UrlParseHost(special, text) ==
    IF Len(text) >= 2 /\ SubSeq(text, 1, 1) = "["
    THEN IF SubSeq(text, Len(text), Len(text)) # "]" THEN None
         ELSE Ipv6Host(UrlParseIpv6(SubSeq(text, 2, Len(text) - 1)))
    ELSE IF CharsOf(text) \cap ForbiddenHostChars # {} THEN None
    ELSE IF ~special THEN Some(text)
    ELSE DomainOrIpv4(ToLower(text))

\* url port: empty is none; digits up to 65535; anything else is an error
\* (reported as ok = FALSE)
UrlParsePort(text) ==
    IF text = "" THEN [ok |-> TRUE, port |-> None]
    ELSE IF IsNumeral(text, 10) /\ Len(text) <= 5 /\ ParseRadix(text, 10) <= 65535
         THEN [ok |-> TRUE, port |-> Some(ParseRadix(text, 10))]
         ELSE [ok |-> FALSE, port |-> None]

\* the parsed URL of a scheme, the text of its host, and the parsed host and
\* port: a special scheme needs a host, and a port equal to the default of
\* the scheme is dropped
UrlOf(scheme, htext, host, port) ==
    IF (IsSpecial(scheme) /\ htext = "") \/ ~IsSome(host) \/ ~port.ok
    THEN UrlErr
    ELSE [ok |-> TRUE, scheme |-> scheme, host |-> host,
          port |-> IF IsSpecial(scheme) /\ port.port = Some(KnownDefaultPort[scheme])
                   THEN None ELSE port.port]

\* host and port of the text hp, the colon that separates them at position
\* colon (0: no port)
UrlHostPort(scheme, hp, colon) ==
    UrlOf(scheme, Before(hp, colon),
          UrlParseHost(IsSpecial(scheme), Before(hp, colon)),
          UrlParsePort(After(hp, colon)))

\* the authority without its user info: the port follows the host after the
\* first ":" behind any "]"
UrlAuthority(scheme, hp) ==
    UrlHostPort(scheme, hp, FindFirst(hp, {":"}, FindFirst(hp, {"]"}, 1) + 1))

\* the authority auth: user info ends at the last "@"
UrlUserInfo(scheme, auth) ==
    UrlAuthority(scheme,
                 SubSeq(auth, FindLast(auth, {"@"}, Len(auth)) + 1, Len(auth)))

\* the text after the slashes: the authority ends at the first "/", "?" or
\* "#", for a special scheme also at "\"
UrlAfterSlashes(scheme, text) ==
    UrlUserInfo(scheme,
        Before(text, FindFirst(text, IF IsSpecial(scheme) THEN {"/", "?", "#", "\\"}
                                     ELSE {"/", "?", "#"}, 1)))

\* the text after "scheme:": a scheme that is not special has an authority
\* only behind "//"
UrlAfterScheme(scheme, rest) ==
    IF IsSpecial(scheme) THEN UrlAfterSlashes(scheme, SkipSlashes(rest))
    ELSE IF StartsWith(rest, "//")
         THEN UrlAfterSlashes(scheme, SubSeq(rest, 3, Len(rest)))
         ELSE [ok |-> TRUE, scheme |-> scheme, host |-> None, port |-> None]

\* the input and its scheme, if it has one
UrlWithScheme(input, sch) ==
    IF ~IsSome(sch) THEN UrlErr
    ELSE UrlAfterScheme(Unwrap(sch),
                        SubSeq(input, Len(Unwrap(sch)) + 2, Len(input)))

\* Url::parse, as far as scheme, host and port
UrlParse(input) == UrlWithScheme(input, ParseScheme(input))

\* Url::host_str
host_str(url) == url.host

\* Url::port_or_known_default
port_or_known_default(url) ==
    IF IsSome(url.port) THEN url.port
    ELSE IF IsSpecial(url.scheme) THEN Some(KnownDefaultPort[url.scheme])
         ELSE None

\* ------------------------------------------------------ middleware::cors
\* mutant: the 172 block runs up to 172.32
is_private_ipv4_Wide(ip) ==
    \/ ip[1] = 10
    \/ ip[1] = 172 /\ ip[2] \in 16..32
    \/ ip[1] = 192 /\ ip[2] = 168

\* mutant: the second octet of the 172 block is not looked at
is_private_ipv4_Any172(ip) ==
    \/ ip[1] = 10
    \/ ip[1] = 172
    \/ ip[1] = 192 /\ ip[2] = 168

\* is_private_ipv4: the first two octets decide
is_private_ipv4(ip) ==
    \/ ip[1] = 10
    \/ ip[1] = 172 /\ ip[2] \in 16..31
    \/ ip[1] = 192 /\ ip[2] = 168

\* HeaderValue::to_str: Err when a byte is not visible ASCII
HeaderToStr(value) == IF value.visible THEN Some(value.bytes) ELSE None

\* mutant: the scheme of the public origin is not compared
SameOrigin_AnyScheme(p, url) ==
    /\ host_str(p) = host_str(url)
    /\ port_or_known_default(p) = port_or_known_default(url)

\* origin_allowed, rule 1: the comparison of the parsed public URL with the
\* parsed origin
SameOrigin(p, url) ==
    /\ p.scheme = url.scheme
    /\ host_str(p) = host_str(url)
    /\ port_or_known_default(p) = port_or_known_default(url)

\* the parsed public URL p, if it parsed, is the origin
MatchesParsed(p, url) == p.ok /\ SameOrigin(p, url)

\* origin_allowed, rule 1: scheme, host and effective port equal those of
\* the public URL; a public URL that does not parse matches nothing
MatchesPublic(url, public_url) ==
    /\ IsSome(public_url)
    /\ MatchesParsed(UrlParse(Unwrap(public_url)), url)

\* the address ip, if the host parsed as one, is in local_ips
IsLocalAddr(ip, local_ips) == IsSome(ip) /\ VecContains(local_ips, Unwrap(ip))

\* origin_allowed, rule 2: the host is an IPv4 address of this machine
IsLocalIp(host, local_ips) == IsLocalAddr(StdParseIpv4(host), local_ips)

\* mutant: the IPv6 loopback is forgotten
IsLoopbackHost_V4Only(host) ==
    \/ EqIgnoreAsciiCase(host, "localhost")
    \/ StartsWith(host, "127.")

\* origin_allowed, rule 3: the loopback names, by string tests on the host
IsLoopbackHost(host) ==
    \/ EqIgnoreAsciiCase(host, "localhost")
    \/ host = "[::1]"
    \/ host = "::1"
    \/ StartsWith(host, "127.")

\* the address ip, if the host parsed as one, is private
IsPrivateAddr(ip) == IsSome(ip) /\ is_private_ipv4(Unwrap(ip))

\* origin_allowed, rule 4: the host is an IPv4 address of a private block
IsPrivateHost(host) == IsPrivateAddr(StdParseIpv4(host))

\* origin_allowed from the host on: the first rule that applies decides
HostAllowed(url, host, public_url, local_ips, allow_private) ==
    IF MatchesPublic(url, public_url) THEN TRUE
    ELSE IF IsLocalIp(host, local_ips) THEN TRUE
    ELSE IF IsLoopbackHost(host) THEN TRUE
    ELSE IF allow_private /\ IsPrivateHost(host) THEN TRUE
    ELSE FALSE

\* origin_allowed from the parsed origin on: no URL and no host are denied
UrlAllowed(url, public_url, local_ips, allow_private) ==
    IF ~url.ok THEN FALSE
    ELSE IF ~IsSome(host_str(url)) THEN FALSE
    ELSE HostAllowed(url, Unwrap(host_str(url)), public_url, local_ips,
                     allow_private)

\* origin_allowed: a header value that is no string is denied
origin_allowed(origin, public_url, local_ips, allow_private) ==
    IF ~IsSome(HeaderToStr(origin)) THEN FALSE
    ELSE UrlAllowed(UrlParse(Unwrap(HeaderToStr(origin))), public_url,
                    local_ips, allow_private)

\* ------------------------------------------------------------------- state
VARIABLES
    config,             \* WolfProxyConfig of the client, fixed at start-up
    inbound,            \* the request as it arrives at the application router
    pc,                 \* suspension point of the task serving the request
    headers,            \* wolf_proxy: req.headers().clone()
    new_uri,            \* wolf_proxy: the parsed URI handed to proxy_request
    client_ip,          \* proxy_request: the client_ip argument, an Option
    attempt,            \* proxy_request: the attempt counter of the dial loop
    dial_log,           \* outcome of every connect attempt made, in order
    sleeps,             \* duration of every inter-attempt sleep, in order
    elapsed,            \* time spent in the dial phase, connects and sleeps
    stream,             \* the UDS connection of the request
    sender,             \* hyper SendRequest handle held by proxy_request
    incoming,           \* hyper Incoming body handle of the response
    sent,               \* requests handed to the connection for sending
    read_waited,        \* time waited for the response headers
    upstream_response,  \* Option: the response head and body of the upstream
    error,              \* Option: Display text of the Err of proxy_request
    response,           \* Option: the response given to the client
    cors,               \* the origin policy, one Origin value and its verdict
    tasks,              \* concurrent proxy_request calls, one record per call
    conns,              \* every UDS connection the concurrent calls opened
    deadline,           \* Option: the instant the pending tokio timeout fires
    env                 \* Option: the process environment Config::load reads

\* the state of the origin policy and of the concurrent calls
aux == << cors, tasks, conns, env, deadline >>

\* the same without the timer, for the steps that arm one
side == << cors, tasks, conns, env >>

vars == << config, inbound, pc, headers, new_uri, client_ip, attempt, dial_log, sleeps,
           elapsed, stream, sender, incoming, sent, read_waited,
           upstream_response, error, response, cors, tasks, conns, deadline,
           env >>

\* ------------------------------------------------------------------ inputs
\* Config::load parses the four numbers from the environment unchecked
Configs ==
    [ retry_attempts : 0..MaxAttempts, retry_delay : 0..MaxDelay,
      connect_timeout : 0..MaxTimeout, read_timeout : 0..MaxTimeout ]

PeerIp == "203.0.113.9"

BaseRequest ==
    [ method |-> "GET", path |-> "/wolfapi/x", query |-> None,
      wire_headers |-> <<>>, body |-> "", peer |-> PeerIp ]

\* the requests the exchange is driven with
Requests ==
    { [BaseRequest EXCEPT !.path = p] :
        p \in { "/wolfapi", "/wolfapi/x", "/wolfapi/wolfapi", "/wolfapifoo",
                "/other", "/wolfapi/_ready", "/wolfapi/wolfapifoo" } }
    \cup { [BaseRequest EXCEPT
              !.query = Some("q=1"),
              !.wire_headers = << <<"upgrade", "h2c">>, <<"Host", "wm.local">> >>],
           [BaseRequest EXCEPT
              !.method = "POST", !.body = "payload",
              !.path = "/wolfapi/wolfapi/x",
              !.wire_headers = << <<"X-Forwarded-For", "198.51.100.7">>,
                                  <<"Connection", "close">> >>] }
    \cup { [BaseRequest EXCEPT !.wire_headers = << <<n, v>> >>] :
        n \in { "upgrade", "Upgrade", "UPGRADE" },
        v \in { "websocket", "WebSocket", "WEBSOCKET", "wEbSoCkEt" } }
    \cup { [BaseRequest EXCEPT !.wire_headers = << <<"Upgrade", "websockets">> >>] }
    \cup { [BaseRequest EXCEPT !.method = "DELETE"],
           [BaseRequest EXCEPT !.method = "OPTIONS"],
           [BaseRequest EXCEPT !.method = "OPTIONS", !.path = "/other"],
           [BaseRequest EXCEPT !.method = "POST", !.path = "/wolfapi/_ready"],
           [BaseRequest EXCEPT !.method = "OPTIONS", !.path = "/wolfapi/_ready"] }

\* the responses the upstream answers with
UpstreamResponses ==
    { [ status |-> 201, wire_headers |-> << <<"X-Custom", "yes">> >>,
        body |-> "{ok:1}" ],
      [ status |-> 200,
        wire_headers |-> << <<"Set-Cookie", "a=1">>, <<"Set-Cookie", "b=2">>,
                            <<"Keep-Alive", "timeout=5">> >>,
        body |-> "" ] }

\* no origin is being judged and no concurrent call is running
AuxIdle ==
    /\ cors = None
    /\ tasks = <<>>
    /\ conns = <<>>
    /\ deadline = None
    /\ env = None

Init ==
    /\ config \in Configs
    /\ inbound \in Requests
    /\ pc = "accept"
    /\ headers = EmptyHeaderMap
    /\ new_uri = None
    /\ client_ip = None
    /\ attempt = 0
    /\ dial_log = <<>>
    /\ sleeps = <<>>
    /\ elapsed = 0
    /\ stream = "none"
    /\ sender = "none"
    /\ incoming = "none"
    /\ sent = <<>>
    /\ read_waited = 0
    /\ upstream_response = None
    /\ error = None
    /\ response = None
    /\ AuxIdle

\* ------------------------------------------------------------------ timers
\* the time since the request was accepted: the dial phase and the wait for
\* the response head
Now == elapsed + read_waited

\* mutant: one budget for the whole request, counted from its start
Deadline_FromStart(now, duration) == duration

\* tokio::time::timeout(duration, future): the timer is armed when the call
\* is made and fires duration later
Deadline(now, duration) == now + duration

\* the time the future under the pending timeout still has
Remaining == IF Unwrap(deadline) > Now THEN Unwrap(deadline) - Now ELSE 0

\* ----------------------------------------------------------------- actions
\* a plain (non-envelope) response
PlainResponse(status, hdrs, body) ==
    [status |-> status, error |-> "", headers |-> hdrs, body |-> body]

\* tower_http CorsLayer, which wraps the whole router: a request of method
\* OPTIONS is a preflight request
IsPreflight(req) == req.method = "OPTIONS"

\* the headers the layer is configured to put on a preflight answer
PreflightHeaders ==
    ("access-control-allow-methods" :> <<"GET,POST,PUT,PATCH,DELETE,OPTIONS">>) @@
    ("access-control-allow-headers" :>
        <<"authorization,content-type,x-api-key,x-requested-with">>) @@
    ("access-control-max-age" :> <<"3600">>)

\* the layer answers a preflight request itself, with an empty 200, and the
\* router behind it is not called
CorsPreflight ==
    /\ pc = "accept"
    /\ IsPreflight(inbound)
    /\ response' = Some(PlainResponse(200, PreflightHeaders, ""))
    /\ pc' = "done"
    /\ UNCHANGED << aux, config, inbound, client_ip, headers, new_uri, attempt, dial_log,
                    sleeps, elapsed, stream, sender, incoming, sent,
                    read_waited, upstream_response, error >>

\* main: every path outside the nest falls to the catch-all of the app
AppFallback ==
    /\ pc = "accept"
    /\ ~IsPreflight(inbound)
    /\ NestedPath(inbound.path) = None
    /\ response' = Some(PlainResponse(200, EmptyHeaderMap, ""))
    /\ pc' = "done"
    /\ UNCHANGED << aux, config, inbound, client_ip, headers, new_uri, attempt, dial_log,
                    sleeps, elapsed, stream, sender, incoming, sent,
                    read_waited, upstream_response, error >>

\* Display of the errors of check_readiness
SocketMissingError == "wolf.sock not found at /var/run/wolf/wolf.sock"
ReadyTimeoutError == "connection timeout"
ReadyConnectError == "failed to connect to wolf.sock"

\* mutant: the readiness failure is mapped like a proxy failure
ReadyFailure_Sniffed(msg) ==
    /\ error' = Some(msg)
    /\ response' = Some(FaultMap(msg))
    /\ pc' = "done"

\* wolf_ready, Err arm: every failure is 503 UpstreamUnavailable
ReadyFailure(msg) ==
    /\ error' = Some(msg)
    /\ response' = Some(error_response(503, "UpstreamUnavailable"))
    /\ pc' = "done"

\* wolf_ready, check_readiness: the socket path does not exist
WolfReadyMissing ==
    /\ pc = "accept"
    /\ ~IsPreflight(inbound)
    /\ NestedPath(inbound.path) = Some("/_ready")
    /\ ReadyFailure(SocketMissingError)
    /\ UNCHANGED << aux, config, inbound, client_ip, headers, new_uri, attempt,
                    dial_log, sleeps, elapsed, stream, sender, incoming, sent,
                    read_waited, upstream_response >>

\* wolf_ready, check_readiness: the path exists, the connect is started
WolfReadyBegin ==
    /\ pc = "accept"
    /\ ~IsPreflight(inbound)
    /\ NestedPath(inbound.path) = Some("/_ready")
    /\ pc' = "ready_connect"
    /\ deadline' = Some(Deadline(Now, config.connect_timeout))
    /\ UNCHANGED << side, config, inbound, client_ip, headers, new_uri, attempt,
                    dial_log, sleeps, elapsed, stream, sender, incoming, sent,
                    read_waited, upstream_response, error, response >>

\* check_readiness: the connect succeeded; the stream is dropped at once
ReadyConnectOk ==
    /\ pc = "ready_connect"
    /\ \E d \in 0..Remaining : elapsed' = elapsed + d
    /\ dial_log' = Append(dial_log, "ok")
    /\ stream' = "closed"
    /\ response' = Some(PlainResponse(200, EmptyHeaderMap, "{\"status\":\"ok\"}"))
    /\ pc' = "done"
    /\ UNCHANGED << aux, config, inbound, client_ip, headers, new_uri, attempt,
                    sleeps, sender, incoming, sent, read_waited,
                    upstream_response, error >>

\* check_readiness: the connect failed with an I/O error
ReadyConnectIoErr ==
    /\ pc = "ready_connect"
    /\ \E d \in 0..Remaining : elapsed' = elapsed + d
    /\ dial_log' = Append(dial_log, "io")
    /\ ReadyFailure(ReadyConnectError)
    /\ UNCHANGED << aux, config, inbound, client_ip, headers, new_uri, attempt,
                    sleeps, stream, sender, incoming, sent, read_waited,
                    upstream_response >>

\* check_readiness: connect_timeout elapsed
ReadyConnectTimeout ==
    /\ pc = "ready_connect"
    /\ elapsed' = elapsed + Remaining
    /\ dial_log' = Append(dial_log, "timeout")
    /\ ReadyFailure(ReadyTimeoutError)
    /\ UNCHANGED << aux, config, inbound, client_ip, headers, new_uri, attempt,
                    sleeps, stream, sender, incoming, sent, read_waited,
                    upstream_response >>

\* wolf_proxy up to the body await: WebSocket check, prefix strip, URI parse
WolfProxyBegin ==
    /\ pc = "accept"
    /\ ~IsPreflight(inbound)
    /\ IsSome(NestedPath(inbound.path))
    /\ Unwrap(NestedPath(inbound.path)) # "/_ready"
    /\ LET path    == Unwrap(NestedPath(inbound.path))
           hdrs    == ParseWireHeaders(inbound.wire_headers)
           upgrade == HeaderMapGet(hdrs, "upgrade")
           parsed  == ParseUri(ReassembleUri(path, inbound.query))
       IN  IF IsSome(upgrade) /\ EqIgnoreAsciiCase(Unwrap(upgrade), "websocket")
           THEN /\ response' = Some(error_response(501, "NotImplemented"))
                /\ pc' = "done"
                /\ UNCHANGED << headers, new_uri >>
           ELSE IF ~IsSome(parsed)
           THEN /\ response' = Some(error_response(400, "InvalidUri"))
                /\ pc' = "done"
                /\ UNCHANGED << headers, new_uri >>
           ELSE /\ headers' = hdrs
                /\ new_uri' = parsed
                /\ pc' = "body"
                /\ UNCHANGED response
    /\ UNCHANGED << aux, config, inbound, client_ip, attempt, dial_log, sleeps, elapsed,
                    stream, sender, incoming, sent, read_waited,
                    upstream_response, error >>

\* wolf_proxy: to_bytes succeeded; proxy_request is entered with
\* client_ip = Some(addr.ip().to_string()) and attempt = 0
ReadBodyOk ==
    /\ pc = "body"
    /\ pc' = "connect"
    /\ client_ip' = Some(inbound.peer)
    /\ attempt' = 0
    /\ deadline' = Some(Deadline(Now, config.connect_timeout))
    /\ UNCHANGED << side, config, inbound, headers, new_uri, dial_log, sleeps,
                    elapsed, stream, sender, incoming, sent, read_waited,
                    upstream_response, error, response >>

\* mutant: a body that cannot be read is reported as an upstream failure
ReadBodyErr_Upstream ==
    /\ pc = "body"
    /\ response' = Some(error_response(502, "UpstreamError"))
    /\ pc' = "done"
    /\ UNCHANGED << aux, config, inbound, client_ip, headers, new_uri, attempt, dial_log,
                    sleeps, elapsed, stream, sender, incoming, sent,
                    read_waited, upstream_response, error >>

\* wolf_proxy: to_bytes failed
ReadBodyErr ==
    /\ pc = "body"
    /\ response' = Some(error_response(400, "InvalidBody"))
    /\ pc' = "done"
    /\ UNCHANGED << aux, config, inbound, client_ip, headers, new_uri, attempt, dial_log,
                    sleeps, elapsed, stream, sender, incoming, sent,
                    read_waited, upstream_response, error >>

\* mutant: the loop gives up one attempt late
Exhausted_Late(n, retry_attempts) == n > retry_attempts

\* mutant: the loop ends only on the attempt numbered retry_attempts
Exhausted_Exact(n, retry_attempts) == n = retry_attempts

\* the test that ends the dial loop after a failed attempt
Exhausted(n, retry_attempts) == n >= retry_attempts

\* mutant: the backoff does not grow with the attempt number
Backoff_Constant(retry_delay, n) == retry_delay

\* the backoff slept after failed attempt n: retry_delay * attempt
Backoff(retry_delay, n) == retry_delay * n

\* dial loop, arm Ok(Ok(stream)): break with the stream
ConnectOk ==
    /\ pc = "connect"
    /\ \E d \in 0..Remaining :
          elapsed' = elapsed + d
    /\ attempt' = attempt + 1
    /\ dial_log' = Append(dial_log, "ok")
    /\ stream' = "open"
    /\ pc' = "send"
    /\ UNCHANGED << aux, config, inbound, client_ip, headers, new_uri, sleeps, sender,
                    incoming, sent, read_waited, upstream_response, error,
                    response >>

\* what a failed attempt does next: fail for good, or go to sleep
AfterFailedAttempt(n, msg) ==
    IF Exhausted(n, config.retry_attempts)
    THEN /\ error' = Some(msg)
         /\ response' = Some(FaultMap(msg))
         /\ pc' = "done"
    ELSE /\ pc' = "sleep"
         /\ UNCHANGED << error, response >>

\* dial loop, arm Ok(Err(e)): the connect failed with an I/O error
ConnectIoErr ==
    /\ pc = "connect"
    /\ \E d \in 0..Remaining :
          elapsed' = elapsed + d
    /\ attempt' = attempt + 1
    /\ dial_log' = Append(dial_log, "io")
    /\ AfterFailedAttempt(attempt + 1, ConnectIoError)
    /\ UNCHANGED << aux, config, inbound, client_ip, headers, new_uri, sleeps, stream,
                    sender, incoming, sent, read_waited, upstream_response >>

\* dial loop, arm Err(_): connect_timeout elapsed
ConnectTimeout ==
    /\ pc = "connect"
    /\ elapsed' = elapsed + Remaining
    /\ attempt' = attempt + 1
    /\ dial_log' = Append(dial_log, "timeout")
    /\ AfterFailedAttempt(attempt + 1, ConnectTimeoutError(attempt + 1))
    /\ UNCHANGED << aux, config, inbound, client_ip, headers, new_uri, sleeps, stream,
                    sender, incoming, sent, read_waited, upstream_response >>

\* dial loop: tokio::time::sleep(retry_delay * attempt) has elapsed
Sleep ==
    /\ pc = "sleep"
    /\ sleeps' = Append(sleeps, Backoff(config.retry_delay, attempt))
    /\ elapsed' = elapsed + Backoff(config.retry_delay, attempt)
    /\ deadline' = Some(Deadline(Now + Backoff(config.retry_delay, attempt),
                                 config.connect_timeout))
    /\ pc' = "connect"
    /\ UNCHANGED << side, config, inbound, client_ip, headers, new_uri, attempt, dial_log,
                    stream, sender, incoming, sent, read_waited,
                    upstream_response, error, response >>

\* proxy_request: the request built for the upstream
UpstreamRequest(method, uri, hdrs, body, ip) ==
    [ method |-> method, uri |-> uri,
      headers |-> UpstreamHeaders(hdrs, ip), body |-> body ]

\* proxy_request after the dial: build the request, handshake (completes
\* without I/O), spawn the connection task, start send_request
Send ==
    /\ pc = "send"
    /\ sent' = Append(sent, UpstreamRequest(inbound.method, Unwrap(new_uri),
                                             headers, inbound.body, client_ip))
    /\ sender' = "live"
    /\ deadline' = Some(Deadline(Now, config.read_timeout))
    /\ pc' = "await_response"
    /\ UNCHANGED << side, config, inbound, client_ip, headers, new_uri, attempt, dial_log,
                    sleeps, elapsed, stream, incoming, read_waited,
                    upstream_response, error, response >>

\* the response head as hyper hands it over
ParsedResponse(r) ==
    [ status |-> r.status, headers |-> ParseWireHeaders(r.wire_headers),
      body |-> r.body ]

\* the response heads the handler can be given
ParsedResponses == { ParsedResponse(r) : r \in UpstreamResponses }

\* send_request, arm Ok(Ok(response)): proxy_request returns the response and
\* response_to_axum starts collecting the body
ResponseHead ==
    /\ pc = "await_response"
    /\ \E r \in ParsedResponses : upstream_response' = Some(r)
    /\ \E w \in 0..Remaining : read_waited' = w
    /\ sender' = "dropped"
    /\ incoming' = "live"
    /\ pc' = "collect"
    /\ UNCHANGED << aux, config, inbound, client_ip, headers, new_uri, attempt, dial_log,
                    sleeps, elapsed, stream, sent, error, response >>

\* mutant: a failed exchange goes back to the dial loop
SendErr_Redial ==
    /\ pc = "await_response"
    /\ \E e \in HyperErrors : error' = Some(e)
    /\ \E w \in 0..Remaining : read_waited' = w
    /\ sender' = "dropped"
    /\ pc' = "connect"
    /\ UNCHANGED << aux, config, inbound, client_ip, headers, new_uri, attempt, dial_log,
                    sleeps, elapsed, stream, incoming, sent,
                    upstream_response, response >>

\* send_request, arm Ok(Err(e)): the exchange failed inside hyper
SendErr ==
    /\ pc = "await_response"
    /\ \E e \in HyperErrors :
          /\ error' = Some(e)
          /\ response' = Some(FaultMap(e))
    /\ \E w \in 0..Remaining : read_waited' = w
    /\ sender' = "dropped"
    /\ pc' = "done"
    /\ UNCHANGED << aux, config, inbound, client_ip, headers, new_uri, attempt, dial_log,
                    sleeps, elapsed, stream, incoming, sent,
                    upstream_response >>

\* send_request, arm Err(Elapsed): read_timeout elapsed without a head
ReadTimeout ==
    /\ pc = "await_response"
    /\ error' = Some(ReadTimeoutError)
    /\ response' = Some(FaultMap(ReadTimeoutError))
    /\ read_waited' = Remaining
    /\ sender' = "dropped"
    /\ pc' = "done"
    /\ UNCHANGED << aux, config, inbound, client_ip, headers, new_uri, attempt, dial_log,
                    sleeps, elapsed, stream, incoming, sent,
                    upstream_response >>

\* response_to_axum: the client response made of the collected exchange
response_to_axum(up) ==
    PlainResponse(up.status, ClientHeaders(up.headers), up.body)

\* response_to_axum: body.collect() completed
CollectOk ==
    /\ pc = "collect"
    /\ response' = Some(response_to_axum(Unwrap(upstream_response)))
    /\ incoming' = "dropped"
    /\ pc' = "done"
    /\ UNCHANGED << aux, config, inbound, client_ip, headers, new_uri, attempt, dial_log,
                    sleeps, elapsed, stream, sender, sent, read_waited,
                    upstream_response, error >>

\* response_to_axum: body.collect() failed
CollectErr ==
    /\ pc = "collect"
    /\ response' = Some(error_response(502, "ResponseConversionError"))
    /\ incoming' = "dropped"
    /\ pc' = "done"
    /\ UNCHANGED << aux, config, inbound, client_ip, headers, new_uri, attempt, dial_log,
                    sleeps, elapsed, stream, sender, sent, read_waited,
                    upstream_response, error >>

\* the spawned connection task: once the sender and the body handle are
\* gone the connection future completes and the UDS stream is dropped
ConnTask ==
    /\ stream = "open"
    /\ sender = "dropped"
    /\ incoming # "live"
    /\ stream' = "closed"
    /\ UNCHANGED << aux, config, inbound, client_ip, pc, headers, new_uri, attempt, dial_log,
                    sleeps, elapsed, sender, incoming, sent, read_waited,
                    upstream_response, error, response >>

\* the awaits of the handler: the points where its future can be dropped
SuspensionPoints ==
    { "body", "connect", "sleep", "await_response", "collect", "ready_connect" }

\* mutant: the request sender outlives the dropped future
Cancel_SenderKept ==
    /\ pc \in SuspensionPoints
    /\ pc' = "cancelled"
    /\ incoming' = IF incoming = "live" THEN "dropped" ELSE incoming
    /\ UNCHANGED << aux, config, inbound, client_ip, headers, new_uri, attempt,
                    dial_log, sleeps, elapsed, stream, sender, sent, read_waited,
                    upstream_response, error, response >>

\* the inbound client goes away: the server drops the handler future at the
\* await it is suspended on, and with it the pending connect or sleep, the
\* request sender and the response body handle
Cancel ==
    /\ pc \in SuspensionPoints
    /\ pc' = "cancelled"
    /\ sender' = IF sender = "live" THEN "dropped" ELSE sender
    /\ incoming' = IF incoming = "live" THEN "dropped" ELSE incoming
    /\ UNCHANGED << aux, config, inbound, client_ip, headers, new_uri, attempt,
                    dial_log, sleeps, elapsed, stream, sent, read_waited,
                    upstream_response, error, response >>

Next ==
    \/ CorsPreflight
    \/ AppFallback
    \/ WolfReadyMissing
    \/ WolfReadyBegin
    \/ ReadyConnectOk
    \/ ReadyConnectIoErr
    \/ ReadyConnectTimeout
    \/ WolfProxyBegin
    \/ ReadBodyOk
    \/ ReadBodyErr
    \/ ConnectOk
    \/ ConnectIoErr
    \/ ConnectTimeout
    \/ Sleep
    \/ Send
    \/ ResponseHead
    \/ SendErr
    \/ ReadTimeout
    \/ CollectOk
    \/ CollectErr
    \/ Cancel
    \/ ConnTask

Spec == Init /\ [][Next]_vars

\* the runtime polls a spawned task that has been woken
FairSpec == Spec /\ WF_vars(ConnTask)

\* the awaits of check_readiness and proxy_request that end by themselves:
\* a connect under tokio::time::timeout, a sleep, the handshake with the
\* send, and the wait for the response head under tokio::time::timeout
TimedStep ==
    \/ ReadyConnectOk \/ ReadyConnectIoErr \/ ReadyConnectTimeout
    \/ ConnectOk \/ ConnectIoErr \/ ConnectTimeout
    \/ Sleep
    \/ Send
    \/ ResponseHead \/ SendErr \/ ReadTimeout

\* the runtime fires every timer and polls every woken task; the body
\* collect of response_to_axum has no timer and ends only when the upstream
\* ends the body or the connection
LiveSpec == Spec /\ WF_vars(TimedStep) /\ WF_vars(ConnTask)

\* ------------------------------------------- the header sanitiser on its own
\* header names as they appear on the wire, in several letter cases
WireNames ==
    { "connection", "Connection", "CONNECTION",
      "proxy-authenticate", "Proxy-Authenticate",
      "proxy-authorization", "PROXY-AUTHORIZATION",
      "te", "Te", "tE", "TE",
      "trailer", "TrAiLeR",
      "transfer-encoding", "Transfer-Encoding", "TRANSFER-ENCODING",
      "upgrade", "Upgrade", "UPGRADE",
      "keep-alive", "Keep-Alive", "KEEP-ALIVE",
      "Host", "x-forwarded-for", "X-Forwarded-For", "X-Custom", "tex",
      "X-Forwarded-Host", "x-forwarded-proto" }

\* header lines: up to MaxHdrs names, the i-th line with the value "v<i>"
WireHeaderLists ==
    UNION { { [i \in 1..n |-> << names[i], "v" \o U32ToString(i) >>] :
                names \in [1..n -> WireNames] } : n \in 0..MaxHdrs }

InitHdr ==
    /\ config = [ retry_attempts |-> 1, retry_delay |-> 0,
                  connect_timeout |-> 1, read_timeout |-> 1 ]
    /\ \E h \in WireHeaderLists :
          inbound = [BaseRequest EXCEPT !.wire_headers = h]
    /\ client_ip \in { None, Some(PeerIp) }
    /\ pc = "hdr_request"
    /\ headers = EmptyHeaderMap
    /\ new_uri = None
    /\ attempt = 0
    /\ dial_log = <<>>
    /\ sleeps = <<>>
    /\ elapsed = 0
    /\ stream = "none"
    /\ sender = "none"
    /\ incoming = "none"
    /\ sent = <<>>
    /\ read_waited = 0
    /\ upstream_response = None
    /\ error = None
    /\ response = None
    /\ AuxIdle

\* proxy_request, request leg: the header lines become the upstream headers
SanitizeRequest ==
    /\ pc = "hdr_request"
    /\ headers' = ParseWireHeaders(inbound.wire_headers)
    /\ sent' = << UpstreamRequest(inbound.method, "/", headers',
                                  inbound.body, client_ip) >>
    /\ pc' = "hdr_response"
    /\ UNCHANGED << aux, config, inbound, client_ip, new_uri, attempt, dial_log,
                    sleeps, elapsed, stream, sender, incoming, read_waited,
                    upstream_response, error, response >>

\* response_to_axum, response leg: the same header lines sent by the upstream
SanitizeResponse ==
    /\ pc = "hdr_response"
    /\ LET up == ParsedResponse([ status |-> 200,
                                  wire_headers |-> inbound.wire_headers,
                                  body |-> "" ])
       IN  /\ upstream_response' = Some(up)
           /\ response' = Some(response_to_axum(up))
    /\ pc' = "hdr_done"
    /\ UNCHANGED << aux, config, inbound, client_ip, headers, new_uri, attempt,
                    dial_log, sleeps, elapsed, stream, sender, incoming, sent,
                    read_waited, error >>

NextHdr ==
    \/ SanitizeRequest
    \/ SanitizeResponse

SpecHdr == InitHdr /\ [][NextHdr]_vars

\* ------------------------------------------- specification of the origin check
\* the request variables while no request is being served
NoRequest ==
    /\ inbound = BaseRequest
    /\ pc = "idle"
    /\ headers = EmptyHeaderMap
    /\ new_uri = None
    /\ client_ip = None
    /\ attempt = 0
    /\ dial_log = <<>>
    /\ sleeps = <<>>
    /\ elapsed = 0
    /\ stream = "none"
    /\ sender = "none"
    /\ incoming = "none"
    /\ sent = <<>>
    /\ read_waited = 0
    /\ upstream_response = None
    /\ error = None
    /\ response = None
    /\ deadline = None

\* the request variables, which the origin check and the concurrent calls
\* leave alone
request_vars ==
    << config, inbound, pc, headers, new_uri, client_ip, attempt, dial_log,
       sleeps, elapsed, stream, sender, incoming, sent, read_waited,
       upstream_response, error, response, deadline, env >>

OriginSchemes == { "http", "https", "app" }

OriginHosts ==
    { "localhost", "LOCALHOST", "LocalHost", "localhost.evil.com",
      "127.0.0.1", "127.1.2.3", "127.1", "127.evil.com", "126.0.0.1",
      "[::1]", "[0:0:0:0:0:0:0:1]", "[::2]",
      "app.example.com", "APP.example.com", "evil.com",
      "10.0.0.1", "172.15.0.1", "172.16.0.1", "172.31.255.255", "172.32.0.1",
      "192.168.1.50", "192.168.1.100", "192.167.1.1", "1.2.3.4" }

OriginPorts == { "", ":80", ":443", ":8080", ":3000" }

\* values of the Origin header: the serialized origins, values that are no
\* URL, and one value with a byte outside visible ASCII
OriginValues ==
    { [bytes |-> s \o "://" \o h \o p, visible |-> TRUE] :
        s \in OriginSchemes, h \in OriginHosts, p \in OriginPorts }
    \cup { [bytes |-> b, visible |-> TRUE] :
             b \in { "not-a-url", "null", "", "http://", "mailto:a",
                     "http://localhost:99999" } }
    \cup { [bytes |-> "http://localhost", visible |-> FALSE] }

\* config.public_url
PublicUrls ==
    { None, Some("https://app.example.com"), Some("http://app.example.com:8080/ui"),
      Some("http://10.0.0.1:3000"), Some("wolf manager") }

\* detect_local_ips: at most the one address of the default route, never a
\* loopback address
LocalIpLists == { <<>>, << <<192, 168, 1, 100>> >>, << <<1, 2, 3, 4>> >> }

InitCors ==
    /\ config = [ retry_attempts |-> 1, retry_delay |-> 0,
                  connect_timeout |-> 1, read_timeout |-> 1 ]
    /\ NoRequest
    /\ env = None
    /\ tasks = <<>>
    /\ conns = <<>>
    /\ cors \in [ origin : OriginValues, public_url : PublicUrls,
                  local_ips : LocalIpLists, allow_private : BOOLEAN,
                  allowed : { None } ]

\* the predicate of the CORS layer is asked about the Origin of a request
CheckOrigin ==
    /\ cors.allowed = None
    /\ cors' = [cors EXCEPT !.allowed =
                   Some(origin_allowed(cors.origin, cors.public_url,
                                       cors.local_ips, cors.allow_private))]
    /\ UNCHANGED << request_vars, tasks, conns >>

NextCors == CheckOrigin

SpecCors == InitCors /\ [][NextCors]_vars

\* ------------------------------------------------ specification of start-up
\* decimal digits only
ParseDigits(s) == IF IsNumeral(s, 10) THEN Some(ParseRadix(s, 10)) ELSE None

\* str::parse::<u64> and str::parse::<u32> on short strings: an optional
\* "+" and then at least one decimal digit; anything else is an Err
ParseUnsigned(s) ==
    IF Len(s) > 0 /\ SubSeq(s, 1, 1) = "+"
    THEN ParseDigits(SubSeq(s, 2, Len(s)))
    ELSE ParseDigits(s)

\* Config::default, the proxy numbers
DefaultConfig ==
    [ wolf_proxy_connect_timeout_ms |-> 2000,
      wolf_proxy_read_timeout_ms |-> 10000,
      wolf_proxy_retry_attempts |-> 3,
      wolf_proxy_retry_delay_ms |-> 500 ]

\* Config::load, one number: the variable replaces the default when it is
\* set and parses
EnvNumber(var, default) ==
    IF IsSome(var) /\ IsSome(ParseUnsigned(Unwrap(var)))
    THEN Unwrap(ParseUnsigned(Unwrap(var)))
    ELSE default

\* Config::load, the proxy numbers; it has no Err path
ConfigLoad(e) ==
    [ wolf_proxy_connect_timeout_ms |->
          EnvNumber(e.WM_WOLF_PROXY_CONNECT_TIMEOUT_MS,
                    DefaultConfig.wolf_proxy_connect_timeout_ms),
      wolf_proxy_read_timeout_ms |->
          EnvNumber(e.WM_WOLF_PROXY_READ_TIMEOUT_MS,
                    DefaultConfig.wolf_proxy_read_timeout_ms),
      wolf_proxy_retry_attempts |->
          EnvNumber(e.WM_WOLF_PROXY_RETRY_ATTEMPTS,
                    DefaultConfig.wolf_proxy_retry_attempts),
      wolf_proxy_retry_delay_ms |->
          EnvNumber(e.WM_WOLF_PROXY_RETRY_DELAY_MS,
                    DefaultConfig.wolf_proxy_retry_delay_ms) ]

\* WolfProxyConfig::new, durations in milliseconds
WolfProxyConfigNew(connect_timeout_ms, read_timeout_ms) ==
    [ connect_timeout |-> connect_timeout_ms, read_timeout |-> read_timeout_ms,
      retry_attempts |-> 3, retry_delay |-> 500 ]

\* WolfProxyConfig::with_retry
with_retry(self, attempts, delay_ms) ==
    [self EXCEPT !.retry_attempts = attempts, !.retry_delay = delay_ms]

\* main: the configuration the proxy client is built with
ClientConfig(cfg) ==
    with_retry(WolfProxyConfigNew(cfg.wolf_proxy_connect_timeout_ms,
                                  cfg.wolf_proxy_read_timeout_ms),
               cfg.wolf_proxy_retry_attempts, cfg.wolf_proxy_retry_delay_ms)

\* values of WM_WOLF_PROXY_RETRY_ATTEMPTS: unset, not a number, or a number
EnvAttempts ==
    { None, Some(""), Some("-1"), Some("+1") }
    \cup { Some(U32ToString(n)) : n \in 0..MaxAttempts }

\* values of a variable that holds milliseconds
EnvMillis(max) ==
    { None, Some("x") } \cup { Some(U32ToString(n)) : n \in 0..max }

InitBoot ==
    /\ NoRequest
    /\ config = None
    /\ cors = None
    /\ tasks = <<>>
    /\ conns = <<>>
    /\ env \in { Some(e) : e \in
                   [ WM_WOLF_PROXY_CONNECT_TIMEOUT_MS : EnvMillis(MaxTimeout),
                     WM_WOLF_PROXY_READ_TIMEOUT_MS : EnvMillis(MaxTimeout),
                     WM_WOLF_PROXY_RETRY_ATTEMPTS : EnvAttempts,
                     WM_WOLF_PROXY_RETRY_DELAY_MS : EnvMillis(MaxDelay) ] }

\* main, from Config::load to the serving router: the client is built from
\* whatever was loaded
Startup ==
    /\ pc = "idle"
    /\ config' = ClientConfig(ConfigLoad(Unwrap(env)))
    /\ pc' = "listening"
    /\ UNCHANGED << aux, inbound, headers, new_uri, client_ip, attempt, dial_log,
                    sleeps, elapsed, stream, sender, incoming, sent,
                    read_waited, upstream_response, error, response >>

\* axum::serve: a request arrives and is given to the router
AcceptRequest ==
    /\ pc = "listening"
    /\ inbound' \in { r \in Requests : r.wire_headers = <<>> }
    /\ pc' = "accept"
    /\ UNCHANGED << aux, config, headers, new_uri, client_ip, attempt, dial_log,
                    sleeps, elapsed, stream, sender, incoming, sent,
                    read_waited, upstream_response, error, response >>

NextBoot ==
    \/ Startup
    \/ AcceptRequest

SpecBoot == InitBoot /\ [][NextBoot]_vars

\* ------------------------------------- specification of concurrent calls
\* The handlers share one WolfProxyClient, which holds the configuration and
\* nothing else. Each call of proxy_request is a record of tasks; conns lists
\* the UDS connections in the order they were established.
Calls == 1..MaxCalls

NewConn(t) ==
    [ owner |-> t, exchanges |-> 0, state |-> "open",
      sender |-> "none", incoming |-> "none" ]

\* mutant: a connection left open and idle by an earlier call is taken again
Dial_Pooled(cs, t) ==
    LET idle == { c \in 1..Len(cs) :
                    /\ cs[c].state = "open"
                    /\ cs[c].sender = "dropped"
                    /\ cs[c].incoming # "live" }
    IN  IF idle # {}
        THEN [ conns |-> cs, conn |-> CHOOSE c \in idle : TRUE ]
        ELSE [ conns |-> Append(cs, NewConn(t)), conn |-> Len(cs) + 1 ]

\* UnixStream::connect returned Ok: a new connection, held by the call that
\* dialled it
Dial(cs, t) == [ conns |-> Append(cs, NewConn(t)), conn |-> Len(cs) + 1 ]

InitConc ==
    /\ config \in { c \in Configs : /\ c.retry_attempts \in 1..2
                                    /\ c.retry_delay = 0
                                    /\ c.connect_timeout = 1
                                    /\ c.read_timeout = 1 }
    /\ NoRequest
    /\ env = None
    /\ cors = None
    /\ tasks = [ t \in Calls |->
                   [ pc |-> "connect", attempt |-> 0, conn |-> 0,
                     outcome |-> "none" ] ]
    /\ conns = <<>>

\* dial loop, arm Ok(Ok(stream))
CallConnectOk(t) ==
    /\ tasks[t].pc = "connect"
    /\ LET d == Dial(conns, t)
       IN  /\ conns' = d.conns
           /\ tasks' = [tasks EXCEPT ![t].pc = "send", ![t].conn = d.conn,
                                     ![t].attempt = @ + 1]
    /\ UNCHANGED << request_vars, cors >>

\* dial loop, arms Ok(Err(e)) and Err(_): retry after a sleep, or give up
CallConnectFail(t) ==
    /\ tasks[t].pc = "connect"
    /\ LET n == tasks[t].attempt + 1
       IN  tasks' = IF Exhausted(n, config.retry_attempts)
                    THEN [tasks EXCEPT ![t].attempt = n, ![t].pc = "done",
                                       ![t].outcome = "dial_error"]
                    ELSE [tasks EXCEPT ![t].attempt = n, ![t].pc = "sleep"]
    /\ UNCHANGED << request_vars, cors, conns >>

\* the sleep between two attempts is over
CallSleep(t) ==
    /\ tasks[t].pc = "sleep"
    /\ tasks' = [tasks EXCEPT ![t].pc = "connect"]
    /\ UNCHANGED << request_vars, cors, conns >>

\* handshake on the stream just dialled, spawn of its connection task, and
\* send_request on the sender of that handshake
CallSend(t) ==
    /\ tasks[t].pc = "send"
    /\ conns' = [conns EXCEPT ![tasks[t].conn].exchanges = @ + 1,
                              ![tasks[t].conn].sender = "live"]
    /\ tasks' = [tasks EXCEPT ![t].pc = "await_response"]
    /\ UNCHANGED << request_vars, cors >>

\* send_request, arm Ok(Ok(response))
CallResponseHead(t) ==
    /\ tasks[t].pc = "await_response"
    /\ conns' = [conns EXCEPT ![tasks[t].conn].sender = "dropped",
                              ![tasks[t].conn].incoming = "live"]
    /\ tasks' = [tasks EXCEPT ![t].pc = "collect"]
    /\ UNCHANGED << request_vars, cors >>

\* send_request, arms Ok(Err(e)) and Err(Elapsed)
CallSendErr(t) ==
    /\ tasks[t].pc = "await_response"
    /\ conns' = [conns EXCEPT ![tasks[t].conn].sender = "dropped"]
    /\ tasks' = [tasks EXCEPT ![t].pc = "done", ![t].outcome = "send_error"]
    /\ UNCHANGED << request_vars, cors >>

\* response_to_axum: the body collect ended, well or not
CallCollect(t) ==
    /\ tasks[t].pc = "collect"
    /\ conns' = [conns EXCEPT ![tasks[t].conn].incoming = "dropped"]
    /\ \E o \in { "response", "body_error" } :
          tasks' = [tasks EXCEPT ![t].pc = "done", ![t].outcome = o]
    /\ UNCHANGED << request_vars, cors >>

\* the client of the call goes away at one of its awaits
CallCancel(t) ==
    /\ tasks[t].pc \in { "connect", "sleep", "await_response", "collect" }
    /\ tasks' = [tasks EXCEPT ![t].pc = "cancelled"]
    /\ conns' = IF tasks[t].conn = 0 THEN conns
                ELSE [conns EXCEPT
                        ![tasks[t].conn].sender =
                            IF @ = "live" THEN "dropped" ELSE @,
                        ![tasks[t].conn].incoming =
                            IF @ = "live" THEN "dropped" ELSE @]
    /\ UNCHANGED << request_vars, cors >>

\* the spawned task of connection c: its handles are gone, the stream is
\* dropped
ConnClose(c) ==
    /\ c \in 1..Len(conns)
    /\ conns[c].state = "open"
    /\ conns[c].sender = "dropped"
    /\ conns[c].incoming # "live"
    /\ conns' = [conns EXCEPT ![c].state = "closed"]
    /\ UNCHANGED << request_vars, cors, tasks >>

NextConc ==
    \/ \E t \in Calls : CallConnectOk(t)
    \/ \E t \in Calls : CallConnectFail(t)
    \/ \E t \in Calls : CallSleep(t)
    \/ \E t \in Calls : CallSend(t)
    \/ \E t \in Calls : CallResponseHead(t)
    \/ \E t \in Calls : CallSendErr(t)
    \/ \E t \in Calls : CallCollect(t)
    \/ \E t \in Calls : CallCancel(t)
    \/ \E c \in Calls : ConnClose(c)

\* the runtime polls every woken connection task
SpecConc ==
    InitConc /\ [][NextConc]_vars /\ \A c \in Calls : WF_vars(ConnClose(c))

\* =================================================================== claims
\* the inbound request is a passthrough request
Passthrough ==
    /\ ~IsPreflight(inbound)
    /\ IsSome(NestedPath(inbound.path))
    /\ Unwrap(NestedPath(inbound.path)) # "/_ready"

\* the last connect attempt made
LastAttempt == dial_log[Len(dial_log)]

\* the dial loop gave up: proxy_request returned Err before any connection
DialFailed == Passthrough /\ pc = "done" /\ IsSome(error) /\ stream = "none"

RECURSIVE SumSeq(_)
SumSeq(q) == IF Len(q) = 0 THEN 0 ELSE q[1] + SumSeq(Tail(q))

\* C1: with retry_attempts = n >= 1 the connect attempts are numbered 1..n,
\* a successful attempt is the last one and is followed by no sleep, and a
\* dial of failures makes exactly n attempts and then fails terminally.
C1_DialAttempts ==
    (Passthrough /\ config.retry_attempts >= 1) =>
        /\ attempt = Len(dial_log)
        /\ Len(dial_log) <= config.retry_attempts
        /\ \A i \in 1..(Len(dial_log) - 1) : dial_log[i] # "ok"
        /\ (Len(dial_log) > 0 /\ LastAttempt = "ok") =>
              /\ pc \notin {"connect", "sleep"}
              /\ Len(sleeps) = Len(dial_log) - 1
              /\ ~DialFailed
        /\ DialFailed =>
              /\ Len(dial_log) = config.retry_attempts
              /\ \A i \in 1..Len(dial_log) : dial_log[i] # "ok"
        /\ (Len(dial_log) = config.retry_attempts /\ LastAttempt # "ok") =>
              DialFailed

C1_Witness ==
    /\ config.retry_attempts = 3
    /\ DialFailed
    /\ dial_log = <<"io", "timeout", "io">>

C3_LastCauseDecides ==
    DialFailed =>
        /\ LastAttempt = "timeout" =>
              /\ Unwrap(response).status = 504
              /\ Unwrap(response).error = "UpstreamTimeout"
        /\ LastAttempt = "io" =>
              /\ Unwrap(response).status = 503
              /\ Unwrap(response).error = "UpstreamUnavailable"

C3_Witness ==
    /\ DialFailed
    /\ dial_log = <<"io", "timeout">>
    /\ Unwrap(response).status = 504

\* the wait for the response head ran into read_timeout
ReadTimedOut == pc = "done" /\ error = Some(ReadTimeoutError)

\* C4: a read timeout after a successful dial is answered with
\* 504 UpstreamTimeout, and the connection of the request gets closed.
C4_ReadTimeout ==
    /\ [](ReadTimedOut =>
            /\ Unwrap(response).status = 504
            /\ Unwrap(response).error = "UpstreamTimeout"
            /\ stream # "none")
    /\ (ReadTimedOut ~> stream = "closed")

C4_Witness == ReadTimedOut /\ stream = "closed" /\ Len(sent) = 1

\* the first Upgrade header line of the inbound request, if any
FirstUpgrade ==
    LET w == inbound.wire_headers
        idx == { i \in 1..Len(w) : ToLower(w[i][1]) = "upgrade" }
    IN  IF idx = {} THEN None
        ELSE Some(w[CHOOSE i \in idx : \A j \in idx : i <= j][2])

\* the inbound request asks for a WebSocket upgrade, in any letter case
WebSocketUpgrade ==
    /\ IsSome(FirstUpgrade)
    /\ ToLower(Unwrap(FirstUpgrade)) = "websocket"

\* C5: a passthrough request with Upgrade: websocket (any letter case) is
\* answered 501 NotImplemented and never gets a connect attempt.
C5_WebSocketShortCircuit ==
    (Passthrough /\ WebSocketUpgrade) =>
        /\ pc \in {"accept", "done"}
        /\ attempt = 0
        /\ dial_log = <<>>
        /\ stream = "none"
        /\ sent = <<>>
        /\ pc = "done" =>
              /\ Unwrap(response).status = 501
              /\ Unwrap(response).error = "NotImplemented"

C5_Witness ==
    /\ Passthrough
    /\ FirstUpgrade = Some("wEbSoCkEt")
    /\ pc = "done"
    /\ Unwrap(response).status = 501

\* proxy_request returned Err after the dial, and not for a read timeout
PostDialFailure ==
    /\ pc = "done"
    /\ IsSome(error)
    /\ stream # "none"
    /\ error # Some(ReadTimeoutError)

\* C6: a failure of proxy_request after a successful dial other than a read
\* timeout is answered with 502 UpstreamError.
C6_PostDialFailureIs502 ==
    PostDialFailure =>
        /\ Unwrap(response).status = 502
        /\ Unwrap(response).error = "UpstreamError"

\* the hop-by-hop names, as the specification lists them
HopByHopNames ==
    { "connection", "proxy-authenticate", "proxy-authorization", "te",
      "trailer", "transfer-encoding", "upgrade", "keep-alive" }

RECURSIVE ValuesOf(_, _)
\* the values of the header lines of one name, in wire order
ValuesOf(wire, name) ==
    IF Len(wire) = 0 THEN <<>>
    ELSE (IF ToLower(wire[1][1]) = name THEN <<wire[1][2]>> ELSE <<>>)
         \o ValuesOf(Tail(wire), name)

C8_WitnessAbsent ==
    /\ Len(sent) = 1
    /\ client_ip = None
    /\ "x-forwarded-for" \notin DOMAIN sent[1].headers

\* the URI the claim expects upstream: the prefix removed once
ExpectedUri ==
    LET p == inbound.path
        rest == IF StartsWith(p, Prefix)
                THEN SubSeq(p, Len(Prefix) + 1, Len(p))
                ELSE p
        path == IF rest = "" THEN "/" ELSE rest
    IN  IF IsSome(inbound.query)
        THEN path \o "?" \o Unwrap(inbound.query)
        ELSE path

\* C9: the path /wolfapi R is forwarded as R (bare /wolfapi as /) with the
\* query appended unchanged; the prefix is removed exactly once.
C9_PrefixStrippedOnce ==
    Len(sent) = 1 => sent[1].uri = ExpectedUri

\* the exchange succeeded and the response was converted
Relayed == pc = "done" /\ IsSome(upstream_response) /\ Unwrap(response).error = ""

\* C10: a relayed response has the status, the body and, value for value,
\* every header of the upstream whose name is not hop-by-hop, and no other.
C10_ResponsePassThrough ==
    Relayed =>
        LET up   == Unwrap(upstream_response)
            down == Unwrap(response)
        IN  /\ down.status = up.status
            /\ down.body = up.body
            /\ DOMAIN down.headers =
                  { n \in DOMAIN up.headers : n \notin HopByHopNames }
            /\ \A n \in DOMAIN down.headers :
                  down.headers[n] = up.headers[n]

\* the request is routed to wolf_ready
ReadyRequest ==
    /\ ~IsPreflight(inbound)
    /\ NestedPath(inbound.path) = Some("/_ready")

\* the answers of wolf_ready
ReadyOk == PlainResponse(200, EmptyHeaderMap, "{\"status\":\"ok\"}")
ReadyUnavailable == error_response(503, "UpstreamUnavailable")

\* C11: the readiness probe makes at most one connect attempt, none when the
\* socket path is missing, and never sleeps or retries; it answers 200
\* {"status":"ok"} exactly when that one connect succeeded and 503
\* UpstreamUnavailable on every failure, a connect timeout included.
C11_ReadinessSingleAttempt ==
    ReadyRequest =>
        /\ Len(dial_log) <= 1
        /\ sleeps = <<>>
        /\ attempt = 0
        /\ sent = <<>>
        /\ pc = "ready_connect" => dial_log = <<>> /\ response = None
        /\ pc = "done" =>
              /\ IsSome(response)
              /\ Unwrap(response) \in {ReadyOk, ReadyUnavailable}
              /\ Unwrap(response) = ReadyOk <=> dial_log = <<"ok">>
              /\ Unwrap(response) = ReadyOk => error = None /\ stream = "closed"
              /\ error = Some(SocketMissingError) => dial_log = <<>>
              /\ dial_log = <<>> => error = Some(SocketMissingError)
              /\ dial_log = <<"timeout">> =>
                    /\ error = Some(ReadyTimeoutError)
                    /\ Unwrap(response) = ReadyUnavailable
              /\ dial_log = <<"io">> =>
                    /\ error = Some(ReadyConnectError)
                    /\ Unwrap(response) = ReadyUnavailable

C11_Witness ==
    /\ ReadyRequest
    /\ pc = "done"
    /\ dial_log = <<"timeout">>
    /\ Unwrap(response) = ReadyUnavailable

C11_WitnessOk ==
    /\ ReadyRequest
    /\ pc = "done"
    /\ dial_log = <<"ok">>
    /\ Unwrap(response) = ReadyOk

\* ---- the origin check
\* the predicate has been asked and has answered
Judged == cors.allowed # None
Allowed == Unwrap(cors.allowed)

\* the Origin value as a URL
OriginUrl == IF cors.origin.visible THEN UrlParse(cors.origin.bytes) ELSE UrlErr
HasHost == OriginUrl.ok /\ IsSome(OriginUrl.host)
OriginHost == Unwrap(OriginUrl.host)
OriginIp == StdParseIpv4(OriginHost)

\* scheme, host and effective port of a parsed URL
TripleOf(url) == << url.scheme, url.host, port_or_known_default(url) >>

\* the configured public origin, when there is one that parses
PublicTriple ==
    IF IsSome(cors.public_url) /\ UrlParse(Unwrap(cors.public_url)).ok
    THEN Some(TripleOf(UrlParse(Unwrap(cors.public_url))))
    ELSE None

\* ip lies in the block base/len, for a prefix of at most 16 bits
InBlock(ip, base, len) ==
    (ip[1] * 256 + ip[2]) \div Pow(2, 16 - len)
        = (base[1] * 256 + base[2]) \div Pow(2, 16 - len)

Rfc1918(ip) ==
    \/ InBlock(ip, <<10, 0, 0, 0>>, 8)
    \/ InBlock(ip, <<172, 16, 0, 0>>, 12)
    \/ InBlock(ip, <<192, 168, 0, 0>>, 16)

\* the rules of the documented algorithm, on the parsed origin
RulePublic == PublicTriple = Some(TripleOf(OriginUrl))
RuleLocalIp ==
    /\ IsSome(OriginIp)
    /\ \E i \in 1..Len(cors.local_ips) : cors.local_ips[i] = Unwrap(OriginIp)
RuleLoopback ==
    \/ ToLower(OriginHost) = "localhost"
    \/ OriginHost \in { "::1", "[::1]" }
    \/ Len(OriginHost) >= 4 /\ SubSeq(OriginHost, 1, 4) = "127."
RulePrivate == cors.allow_private /\ IsSome(OriginIp) /\ Rfc1918(Unwrap(OriginIp))

DocumentedVerdict ==
    IF ~HasHost THEN FALSE
    ELSE IF RulePublic THEN TRUE
    ELSE IF RuleLocalIp THEN TRUE
    ELSE IF RuleLoopback THEN TRUE
    ELSE IF RulePrivate THEN TRUE
    ELSE FALSE

\* C12: origin_allowed gives, for every Origin value and configuration, the
\* verdict of the ordered first-match algorithm: no URL or no host is denied;
\* the triple of the public origin is allowed; an IPv4 host in the local set
\* is allowed on any port; localhost in any case, ::1, [::1] and 127.* are
\* allowed; an RFC1918 host is allowed when allow_private; the rest is denied.
C12_FirstMatchAlgorithm == Judged => (Allowed <=> DocumentedVerdict)

C12_Witness ==
    /\ Judged
    /\ cors.origin.bytes = "http://172.31.255.255:8080"
    /\ cors.public_url = Some("https://app.example.com")
    /\ cors.allow_private
    /\ ~RulePublic /\ ~RuleLocalIp /\ ~RuleLoopback /\ RulePrivate
    /\ Allowed

C12_WitnessDenied ==
    /\ Judged
    /\ cors.origin.bytes = "not-a-url"
    /\ ~Allowed

\* the host is written as an IP address: bracketed IPv6, dotted decimal, or
\* any other number the URL syntax reads as IPv4
IsIpLiteral(host) ==
    \/ StartsWith(host, "[")
    \/ IsSome(StdParseIpv4(host))
    \/ EndsInNumber(ToLower(host)) /\ IsSome(UrlParseIpv4(ToLower(host)))

\* C13: an origin whose host is a name other than localhost is allowed only
\* when its scheme, host and effective port are those of the public origin;
\* without a public origin it is denied.
C13_NamesOnlyByPublicOrigin ==
    (Judged /\ HasHost /\ ~IsIpLiteral(OriginHost)
        /\ ToLower(OriginHost) # "localhost")
    => (Allowed => RulePublic)

\* C14: whatever the public origin, the local addresses and allow_private, and
\* for every scheme and port, an origin whose host is localhost in any case,
\* an address of 127.0.0.0/8 or [::1] is allowed.
C14_LoopbackAlwaysAllowed ==
    (Judged /\ HasHost
        /\ \/ ToLower(OriginHost) = "localhost"
           \/ OriginHost = "[::1]"
           \/ IsSome(OriginIp) /\ InBlock(Unwrap(OriginIp), <<127, 0, 0, 0>>, 8))
    => Allowed

C14_Witness ==
    /\ Judged
    /\ cors.origin.bytes = "app://LOCALHOST:3000"
    /\ cors.public_url = Some("https://app.example.com")
    /\ ~cors.allow_private
    /\ Allowed

C14_WitnessV6 ==
    /\ Judged
    /\ cors.origin.bytes = "https://[0:0:0:0:0:0:0:1]:8080"
    /\ OriginHost = "[::1]"
    /\ Allowed

\* C15: the public-origin rule needs the whole triple: the triple of the
\* public origin is allowed, and an origin with its host but another scheme
\* or another effective port is denied unless the local-address, loopback or
\* private rule admits it.
C15_PublicOriginExactTriple ==
    (Judged /\ HasHost /\ IsSome(PublicTriple)) =>
        /\ RulePublic => Allowed
        /\ (/\ OriginUrl.host = Unwrap(PublicTriple)[2]
            /\ ~RulePublic
            /\ ~RuleLocalIp /\ ~RuleLoopback /\ ~RulePrivate) => ~Allowed

C15_Witness ==
    /\ Judged
    /\ cors.public_url = Some("https://app.example.com")
    /\ cors.origin.bytes = "https://APP.example.com:8080"
    /\ OriginUrl.host = Unwrap(PublicTriple)[2]
    /\ ~Allowed

C15_WitnessMatch ==
    /\ Judged
    /\ cors.public_url = Some("https://app.example.com")
    /\ cors.origin.bytes = "https://APP.example.com:443"
    /\ RulePublic
    /\ Allowed

\* C16: with no public origin and no local address, an IPv4 host of
\* 10.0.0.0/8, 172.16.0.0/12 or 192.168.0.0/16 is allowed exactly when
\* allow_private is set, and an IPv4 host outside these blocks and outside
\* 127.0.0.0/8 is denied whatever allow_private is, 172.15.x.x and 172.32.x.x
\* included.
C16_PrivateBlocks ==
    (Judged /\ HasHost /\ cors.public_url = None /\ cors.local_ips = <<>>
        /\ IsSome(OriginIp)) =>
        /\ Rfc1918(Unwrap(OriginIp)) => (Allowed <=> cors.allow_private)
        /\ (/\ ~Rfc1918(Unwrap(OriginIp))
            /\ ~InBlock(Unwrap(OriginIp), <<127, 0, 0, 0>>, 8)) => ~Allowed

C16_Witness ==
    /\ Judged /\ HasHost
    /\ cors.public_url = None /\ cors.local_ips = <<>>
    /\ cors.allow_private
    /\ OriginIp = Some(<<172, 32, 0, 1>>)
    /\ ~Allowed

C16_WitnessAllowed ==
    /\ Judged /\ HasHost
    /\ cors.public_url = None /\ cors.local_ips = <<>>
    /\ cors.allow_private
    /\ OriginIp = Some(<<172, 16, 0, 1>>)
    /\ Allowed

\* the handler future of a passthrough request has been dropped
Cancelled == Passthrough /\ pc = "cancelled"

\* C17: once the inbound client has aborted a proxied request at one of its
\* awaits (connect, inter-retry sleep, wait for the response head, body
\* read), no further connect attempt is made, no sleep is started, no request
\* is sent, and the UDS connection of the request, if open, gets closed.
C17_Cancellation ==
    /\ [][Cancelled => /\ pc' = "cancelled"
                       /\ dial_log' = dial_log
                       /\ sleeps' = sleeps
                       /\ sent' = sent
                       /\ response' = response]_vars
    /\ ((Cancelled /\ stream = "open") ~> (stream = "closed"))

C17_Witness ==
    /\ Cancelled
    /\ stream = "closed"
    /\ incoming = "dropped"
    /\ Len(sent) = 1

C17_WitnessDial ==
    /\ Cancelled
    /\ stream = "none"
    /\ Len(dial_log) = 1
    /\ Len(sleeps) = 1
    /\ config.retry_attempts = 3

\* the request has been answered, or its client has gone away
Finished == pc \in { "done", "cancelled" }

\* proxy_request is under way
InProxyRequest ==
    Passthrough /\ pc \in { "connect", "sleep", "send", "await_response", "collect" }

\* C18: every proxied request ends with a response or an error envelope,
\* whatever the upstream does: no wait of the request, the read of the
\* response body included, can last forever.
C18_Terminates == InProxyRequest ~> Finished

\* the request path lies under the prefix
UnderPrefix == IsSome(NestedPath(inbound.path))

\* the one request the readiness probe is documented for
GetReady ==
    inbound.method = "GET" /\ NestedPath(inbound.path) = Some("/_ready")

\* C19: every request under the prefix other than GET {prefix}/_ready is
\* handed to the passthrough handler, whatever its method, and what is
\* forwarded upstream carries the inbound method unchanged; no method is
\* answered locally or turned away in front of the handler.
C19_EveryMethodPassedThrough ==
    /\ [][(pc = "accept" /\ UnderPrefix /\ ~GetReady) => WolfProxyBegin]_vars
    /\ []((UnderPrefix /\ ~GetReady /\ Len(sent) = 1)
            => sent[1].method = inbound.method)

\* ---- concurrent calls
\* the connections call t has established
ConnsOf(t) == { c \in 1..Len(conns) : conns[c].owner = t }

\* call t is over
CallOver(t) == tasks[t].pc \in { "done", "cancelled" }

\* the connection of call t has been closed
ConnClosed(t) ==
    tasks[t].conn # 0 /\ conns[tasks[t].conn].state = "closed"

\* a step of one call leaves the other calls and their connections alone
Isolated ==
    \A t \in Calls :
        tasks'[t] # tasks[t] =>
            /\ \A u \in Calls \ {t} : tasks'[u] = tasks[u]
            /\ \A c \in 1..Len(conns) :
                   conns[c].owner # t => conns'[c] = conns[c]

\* C20: every call dials a connection of its own: it establishes at most one,
\* the connection it uses is the one it dialled and no other call uses it,
\* that connection carries one exchange and never a second, it is closed
\* once the call is over, and no step of a call touches another call or its
\* connection.
C20_FreshConnectionPerRequest ==
    /\ [](\A t \in Calls :
            /\ Cardinality(ConnsOf(t)) <= 1
            /\ ConnsOf(t) = IF tasks[t].conn = 0 THEN {} ELSE { tasks[t].conn }
            /\ \A u \in Calls \ {t} :
                   tasks[t].conn # 0 => tasks[u].conn # tasks[t].conn)
    /\ [](\A c \in 1..Len(conns) :
            /\ conns[c].exchanges <= 1
            /\ tasks[conns[c].owner].pc \in { "await_response", "collect" }
                  => conns[c].exchanges = 1 /\ conns[c].state = "open")
    /\ [][Isolated]_vars
    /\ \A t \in Calls :
          (CallOver(t) /\ tasks[t].conn # 0) ~> ConnClosed(t)

C20_Witness ==
    /\ \A t \in Calls : tasks[t].pc = "done" /\ tasks[t].outcome = "response"
    /\ Len(conns) = MaxCalls
    /\ \A c \in 1..Len(conns) :
          conns[c].state = "closed" /\ conns[c].exchanges = 1
    /\ tasks[1].conn = 2

\* ---------------------------------------------------------------- C21
\* the phase of a proxied request: Idle 0 (not yet in proxy_request),
\* Dialing 1 (the dial loop, up to the send), Sent 2 (request handed over,
\* waiting for the head), Reading 3 (body collect), Done 4
PhaseRank ==
    CASE pc \in {"accept", "body"} -> 0
      [] pc \in {"connect", "sleep", "send"} -> 1
      [] pc = "await_response" -> 2
      [] pc = "collect" -> 3
      [] OTHER -> 4

\* a step that fails at or after the send
FailsAfterSend ==
    /\ pc \in {"await_response", "collect"}
    /\ pc' = "done"
    /\ Unwrap(response').error # ""

\* C21: per request the phases run Idle, Dialing, Sent, Reading, Done in
\* this order, and connect attempts and sleeps are steps of Dialing alone;
\* the request is sent at most once and only over a connection that a
\* successful attempt opened;
\* once it is sent no connect attempt, sleep or send follows, and a failure
\* at or after the send ends the request with the error.
C21_PhasesInOrder ==
    /\ [](Passthrough =>
            /\ Len(sent) <= 1
            /\ PhaseRank \in 2..3 => Len(sent) = 1
            /\ Len(sent) = 1 =>
                  /\ LastAttempt = "ok"
                  /\ stream # "none"
                  /\ PhaseRank >= 2)
    /\ [][Passthrough =>
            /\ PhaseRank' >= PhaseRank
            /\ (PhaseRank' = PhaseRank /\ pc' # pc) => PhaseRank <= 1
            /\ (dial_log' # dial_log \/ sleeps' # sleeps) =>
                  /\ PhaseRank = 1
                  /\ PhaseRank' \in {1, 4}
            /\ PhaseRank' > PhaseRank =>
                  \/ PhaseRank' = PhaseRank + 1
                  \/ PhaseRank' = 4
            /\ Len(sent) = 1 =>
                  /\ sent' = sent
                  /\ dial_log' = dial_log
                  /\ sleeps' = sleeps
                  /\ attempt' = attempt
            /\ FailsAfterSend =>
                  /\ dial_log' = dial_log
                  /\ sent' = sent
                  /\ stream' = stream]_vars

\* a send failure after a dial that needed a retry
C21_Witness ==
    /\ Passthrough
    /\ pc = "done"
    /\ dial_log = <<"io", "ok">>
    /\ Len(sent) = 1
    /\ error = Some("connection closed before message completed")

\* a body failure after the head was read
C21_WitnessReading ==
    /\ Passthrough
    /\ pc = "done"
    /\ Len(sent) = 1
    /\ IsSome(upstream_response)
    /\ Unwrap(response).error = "ResponseConversionError"

\* ---------------------------------------------------------------- C22
\* C22: every connect attempt starts with the whole connect_timeout ahead
\* of it and times out exactly that long after it started; the wait for the
\* response head starts with the whole read_timeout ahead of it when the
\* request is sent, and a read timeout comes exactly read_timeout after the
\* send, however long the dial phase took; the wait for the head adds
\* nothing to the dial phase.
C22_TimeoutsIndependent ==
    /\ [](Passthrough =>
            /\ pc = "connect" => Remaining = config.connect_timeout
            /\ pc = "await_response" => Remaining = config.read_timeout
            /\ ReadTimedOut => read_waited = config.read_timeout)
    /\ [][Passthrough =>
            /\ dial_log' = Append(dial_log, "timeout") =>
                  elapsed' = elapsed + config.connect_timeout
            /\ pc = "connect" =>
                  elapsed' <= elapsed + config.connect_timeout
            /\ pc = "await_response" =>
                  /\ read_waited' <= config.read_timeout
                  /\ elapsed' = elapsed]_vars

\* a read timeout after a dial that used up a connect timeout and a sleep
C22_Witness ==
    /\ Passthrough
    /\ ReadTimedOut
    /\ config.connect_timeout = 1
    /\ config.read_timeout = 1
    /\ dial_log = <<"timeout", "ok">>
    /\ sleeps = <<1>>
    /\ elapsed >= 2
    /\ read_waited = 1

\* a second attempt that timed out after the first one had timed out
C22_WitnessDial ==
    /\ Passthrough
    /\ config.connect_timeout = 1
    /\ dial_log = <<"timeout", "timeout">>
    /\ elapsed = 2 + SumSeq(sleeps)

\* ---------------------------------------------------------------- C23
\* wolf_proxy got as far as reassembling the URI: the request is proxied
\* and is no WebSocket upgrade
UriReassembled == Passthrough /\ ~WebSocketUpgrade

\* the text wolf_proxy hands to the URI parser
ReassembledText ==
    ReassembleUri(Unwrap(NestedPath(inbound.path)), inbound.query)

\* the envelope of a request-shape error
ShapeError(code) == Some(error_response(400, code))

\* C23: when the reassembled URI does not parse the request ends at once
\* with 400 InvalidUri, and when the inbound body cannot be read it ends
\* with 400 InvalidBody; a request answered with either has made no connect
\* attempt, has opened no connection and has sent nothing upstream.
C23_ShapeErrorsBeforeDial ==
    /\ [](UriReassembled =>
            /\ (~IsSome(ParseUri(ReassembledText)) /\ pc # "accept") =>
                  /\ pc = "done"
                  /\ response = ShapeError("InvalidUri")
            /\ response \in { ShapeError("InvalidUri"), ShapeError("InvalidBody") } =>
                  /\ dial_log = <<>>
                  /\ sleeps = <<>>
                  /\ stream = "none"
                  /\ sent = <<>>
                  /\ attempt = 0)
    /\ [][(UriReassembled /\ pc = "body" /\ pc' = "done") =>
            response' = ShapeError("InvalidBody")]_vars

\* /wolfapi/wolfapi: nothing is left of the path after the strip
C23_Witness ==
    /\ UriReassembled
    /\ inbound.path = "/wolfapi/wolfapi"
    /\ pc = "done"
    /\ response = ShapeError("InvalidUri")

C23_WitnessBody ==
    /\ UriReassembled
    /\ pc = "done"
    /\ IsSome(new_uri)
    /\ response = ShapeError("InvalidBody")

\* ---------------------------------------------------------------- C24
\* C24: a proxied request that has made a connect attempt carries a URI
\* that begins with "/", and so does every request sent upstream.
C24_AbsolutePathUri ==
    (Passthrough /\ dial_log # <<>>) =>
        /\ StartsWith(Unwrap(new_uri), "/")
        /\ \A i \in 1..Len(sent) : StartsWith(sent[i].uri, "/")

\* ---------------------------------------------------------------- C25
\* the value of the first Host line of the inbound request, if any
InboundHost ==
    LET v == ValuesOf(inbound.wire_headers, "host")
    IN  IF v = <<>> THEN None ELSE Some(v[1])

\* C25: the upstream request carries X-Forwarded-Proto with the value http;
\* it carries X-Forwarded-Host exactly when the inbound request has a Host
\* header, and then with the value of that header and no other.
C25_ForwardedProtoHost ==
    Len(sent) = 1 =>
        LET up == sent[1].headers
        IN  /\ "x-forwarded-proto" \in DOMAIN up
            /\ \E j \in 1..Len(up["x-forwarded-proto"]) :
                  up["x-forwarded-proto"][j] = "http"
            /\ "x-forwarded-host" \in DOMAIN up <=> IsSome(InboundHost)
            /\ IsSome(InboundHost) =>
                  up["x-forwarded-host"] = << Unwrap(InboundHost) >>

\* ---------------------------------------------------------------- C26
\* the invariants of a proxy configuration
ValidProxyConfig(c) ==
    /\ c.retry_attempts >= 1
    /\ c.connect_timeout > 0
    /\ c.read_timeout > 0

\* C26: the configuration of a process that has come up and serves
\* requests has retry_attempts >= 1 and strictly positive connect and read
\* timeouts.
C26_ConfigValidated ==
    pc \in {"listening", "accept"} => ValidProxyConfig(config)

\* ---------------------------------------------------------------- C27
\* the dial loop of a proxied request is running
Dialing == Passthrough /\ pc \in {"connect", "sleep"}

\* the dial loop has been entered and an attempt of it has ended
AttemptEnded == Passthrough /\ IsSome(client_ip) /\ pc \notin {"connect", "cancelled"}

\* the largest number of attempts a configuration allows
MaxDials(retry_attempts) == IF retry_attempts > 1 THEN retry_attempts ELSE 1

\* C27: for every retry_attempts, 0 included, a dial makes at least one and
\* at most max(1, retry_attempts) connect attempts and the loop ends; with
\* retry_attempts = 0, as with 1, there is one attempt and no sleep, and a
\* failed dial reports that single attempt.
C27_DialLoopTerminates ==
    /\ [](Passthrough =>
            /\ Len(dial_log) <= MaxDials(config.retry_attempts)
            /\ AttemptEnded => Len(dial_log) >= 1
            /\ config.retry_attempts <= 1 =>
                  /\ Len(dial_log) <= 1
                  /\ sleeps = <<>>
                  /\ pc # "sleep"
                  /\ DialFailed =>
                        error \in { Some(ConnectIoError),
                                    Some(ConnectTimeoutError(1)) })
    /\ (Dialing ~> ~Dialing)

\* retry_attempts = 0: one attempt, then the error
C27_Witness ==
    /\ config.retry_attempts = 0
    /\ DialFailed
    /\ dial_log = <<"timeout">>
    /\ sleeps = <<>>
    /\ error = Some("connection timeout after 1 attempts")

\* retry_attempts = 0: the one attempt connects and the request is sent
C27_WitnessOk ==
    /\ config.retry_attempts = 0
    /\ Passthrough
    /\ dial_log = <<"ok">>
    /\ Len(sent) = 1

====
